---- MODULE Spec2Model ----
(***************************************************************************)
(* leftovers-wiki: the recipe parsing, nutrition, derived-field and        *)
(* ingredient-scaling code of RecipeCard, the nutrition validation of      *)
(* getRecipeFromGemini and the submit/render cycle of the Home page.       *)
(*                                                                         *)
(* Text is modelled character by character: a JavaScript string is a       *)
(* sequence of one-character strings, so that every replace, trim, split   *)
(* and regular-expression test of the source is computed, not assumed.     *)
(* Numbers are exact rationals [n |-> numerator, d |-> denominator]; d = 0 *)
(* stands for Infinity (n > 0) and NaN (n = 0).                            *)
(***************************************************************************)
EXTENDS Integers, Sequences, FiniteSets, TLC

(***************************************************************************)
(* Characters and strings                                                  *)
(***************************************************************************)

\* A string literal as a sequence of characters.
Chars(s) == [i \in 1..Len(s) |-> SubSeq(s, i, i)] \o <<>>

UpperAlpha == Chars("ABCDEFGHIJKLMNOPQRSTUVWXYZ")
LowerAlpha == Chars("abcdefghijklmnopqrstuvwxyz")
Digits == Chars("0123456789")

NL == "\n"

DigitChars == {Digits[i] : i \in 1..10}
UpperChars == {UpperAlpha[i] : i \in 1..26}
LowerChars == {LowerAlpha[i] : i \in 1..26}
WordChars == DigitChars \cup UpperChars \cup LowerChars \cup {"_"}

IsDigit(c) == c \in DigitChars
IsUpper(c) == c \in UpperChars
IsLower(c) == c \in LowerChars
IsAlpha(c) == IsUpper(c) \/ IsLower(c)
\* \s of the regular expressions: the blank and the line break are the only
\* white space of the texts considered.
IsSpace(c) == c = " " \/ c = NL
\* \w of the regular expressions.
IsWord(c) == c \in WordChars

DigitValue == [c \in DigitChars |-> (CHOOSE i \in 1..10 : Digits[i] = c) - 1]
DigitVal(c) == DigitValue[c]

LowerOf == [c \in UpperChars |-> LowerAlpha[CHOOSE i \in 1..26 : UpperAlpha[i] = c]]
LowerChar(c) == IF c \in UpperChars THEN LowerOf[c] ELSE c

\* String.prototype.toLowerCase
ToLowerCase(s) == [i \in 1..Len(s) |-> LowerChar(s[i])] \o <<>>

Min(a, b) == IF a < b THEN a ELSE b
Max(a, b) == IF a > b THEN a ELSE b

\* s.substring(i) with a 1-based i: the rest of s from position i on.
From(s, i) == SubSeq(s, i, Len(s))

\* The least and the greatest element of a non-empty set of integers.
Least(S) == CHOOSE i \in S : \A j \in S : i <= j
Greatest(S) == 0 - Least({0 - i : i \in S})

\* String.prototype.trim
Trim(s) ==
  LET keep == {i \in 1..Len(s) : ~IsSpace(s[i])}
  IN  IF keep = {} THEN <<>> ELSE SubSeq(s, Least(keep), Greatest(keep))

\* p occurs in s at position i (1-based), letter case respected.
MatchAt(s, i, p) ==
  /\ i >= 1
  /\ i + Len(p) - 1 <= Len(s)
  /\ \A k \in 1..Len(p) : s[i + k - 1] = p[k]

\* p occurs in s at position i under the regular-expression flag i.
MatchAtCI(s, i, p) ==
  /\ i >= 1
  /\ i + Len(p) - 1 <= Len(s)
  /\ \A k \in 1..Len(p) : LowerChar(s[i + k - 1]) = LowerChar(p[k])

\* String.prototype.includes
Includes(s, p) == \E i \in 1..(Len(s) - Len(p) + 1) : MatchAt(s, i, p)

\* /p/i.test(s) for a literal p
TestCI(s, p) == \E i \in 1..(Len(s) - Len(p) + 1) : MatchAtCI(s, i, p)

\* /^(p1|p2|...)/i.test(s) for literals p1, p2, ...
StartsWithAnyCI(s, ps) == \E k \in 1..Len(ps) : MatchAtCI(s, 1, ps[k])

\* The end (1-based, inclusive) of the longest run of characters satisfying
\* the class cls that starts at position i; i - 1 when s[i] is not in cls.
RunEnd(s, i, cls(_)) ==
  LET stops == {j \in i..Len(s) : ~cls(s[j])}
  IN  IF stops = {} THEN Len(s) ELSE Least(stops) - 1

\* The start of the longest run of characters satisfying cls that ends at
\* position j; j + 1 when s[j] is not in cls (or j = 0).
RunStart(s, j, cls(_)) ==
  LET stops == {k \in 1..j : ~cls(s[k])}
  IN  IF stops = {} THEN 1 ELSE Greatest(stops) + 1

\* String.prototype.split(sep) for a one-character separator.
RECURSIVE Split(_, _)
Split(s, sep) ==
  LET at == {i \in 1..Len(s) : s[i] = sep}
  IN  IF at = {} THEN <<s>>
      ELSE <<SubSeq(s, 1, Least(at) - 1)>> \o Split(From(s, Least(at) + 1), sep)

\* Array.prototype.join(sep)
RECURSIVE Join(_, _)
Join(ls, sep) ==
  IF ls = <<>> THEN <<>>
  ELSE IF Len(ls) = 1 THEN ls[1]
  ELSE ls[1] \o <<sep>> \o Join(Tail(ls), sep)

\* Array.prototype.filter: the elements satisfying keep, in their order.
Filter(ls, keep(_)) ==
  LET kept[i \in 0..Len(ls)] ==
        IF i = 0 THEN <<>>
        ELSE IF keep(ls[i]) THEN Append(kept[i - 1], ls[i])
        ELSE kept[i - 1]
  IN  kept[Len(ls)]

\* Array.prototype.map
Map(ls, f(_)) == [i \in 1..Len(ls) |-> f(ls[i])] \o <<>>

\* Array.prototype.findIndex: the 0-based index of the first element
\* satisfying test, -1 when there is none.
FindIndex(ls, test(_)) ==
  LET hits == {i \in 1..Len(ls) : test(ls[i])}
  IN  IF hits = {} THEN -1 ELSE Least(hits) - 1

\* Array.prototype.slice(start, end) on 0-based indices, negative indices
\* counting from the end as in JavaScript.
Slice(ls, start, end) ==
  LET n  == Len(ls)
      from == IF start < 0 THEN Max(n + start, 0) ELSE Min(start, n)
      to == IF end < 0 THEN Max(n + end, 0) ELSE Min(end, n)
  IN  SubSeq(ls, from + 1, to)

\* s with every character satisfying drop removed: s.replace(/[...]/g, '').
RemoveAll(s, drop(_)) == Filter(s, LAMBDA c : ~drop(c))

\* A natural number as its decimal digits: Number.prototype.toString for a
\* non-negative integer.
RECURSIVE NatToChars(_)
NatToChars(n) ==
  IF n < 10 THEN <<Digits[n + 1]>>
  ELSE NatToChars(n \div 10) \o <<Digits[(n % 10) + 1]>>

\* The value of a non-empty run of decimal digits.
RECURSIVE DigitsToNat(_)
DigitsToNat(ds) ==
  IF ds = <<>> THEN 0
  ELSE 10 * DigitsToNat(SubSeq(ds, 1, Len(ds) - 1)) + DigitVal(ds[Len(ds)])

\* s.replace(/(p1|p2|...):?/i, ''): the first (leftmost) occurrence of one
\* of the literals, with a colon directly after it when there is one, is
\* removed; at the leftmost position the first alternative that matches wins.
RemoveFirstCI(s, ps) ==
  LET at == {i \in 1..Len(s) : \E k \in 1..Len(ps) : MatchAtCI(s, i, ps[k])}
  IN  IF at = {} THEN s
      ELSE LET i == Least(at)
               k == Least({k \in 1..Len(ps) : MatchAtCI(s, i, ps[k])})
               e == i + Len(ps[k]) - 1
               e2 == IF e < Len(s) /\ s[e + 1] = ":" THEN e + 1 ELSE e
           IN  SubSeq(s, 1, i - 1) \o From(s, e2 + 1)

(***************************************************************************)
(* RecipeCard.tsx: text normalizer and section parser                      *)
(***************************************************************************)

\* A normalizer that would trim before it removes the markers.
sanitizeTrimFirst(text) == RemoveAll(Trim(text), LAMBDA c : c = "*" \/ c = "#")

\* text.replace(/[\*#]/g, '').trim()
sanitizeText(text) == Trim(RemoveAll(text, LAMBDA c : c = "*" \/ c = "#"))

\* str.replace(/\*\*|\*/g, '').trim()
stripMarkdown(str) == Trim(RemoveAll(str, LAMBDA c : c = "*"))

\* The bullet glyph U+2022 of the cleanup patterns. The module is ASCII, so
\* "@", which occurs nowhere else, stands for it.
BulletGlyph == "@"

\* The character class [-*<bullet>\d.] of the cleanup patterns.
IsBulletOrOrdinalChar(c) ==
  c = "-" \/ c = "*" \/ c = BulletGlyph \/ c = "." \/ IsDigit(c)

\* line.replace(/^[-*<bullet>\d.]+\s*/, '').trim()
stripBulletsAndNumbers(line) ==
  LET e == RunEnd(line, 1, IsBulletOrOrdinalChar)
  IN  IF e = 0 THEN Trim(line)
      ELSE Trim(From(line, RunEnd(line, e + 1, IsSpace) + 1))

\* line.replace(/^\d+\.\s*/, '').trim()
stripOrdinal(line) ==
  LET e == RunEnd(line, 1, IsDigit)
  IN  IF e >= 1 /\ e < Len(line) /\ line[e + 1] = "."
      THEN Trim(From(line, RunEnd(line, e + 2, IsSpace) + 1))
      ELSE Trim(line)

\* /^(instructions?|substitutions?|tips?|nutritional|time)/i
SectionHeadingWords ==
  <<Chars("instruction"), Chars("substitution"), Chars("tip"),
    Chars("nutritional"), Chars("time")>>

IsSectionHeading(line) == StartsWithAnyCI(line, SectionHeadingWords)

\* /^(serves|prep|cook|total time|yield|serving size)/i
NutritionStopWords ==
  <<Chars("serves"), Chars("prep"), Chars("cook"), Chars("total time"),
    Chars("yield"), Chars("serving size")>>

\* /serving size|portion size|yield/i
ServingSizeWords ==
  <<Chars("serving size"), Chars("portion size"), Chars("yield")>>

\* The headers parseRecipeString searches for.
IngredientWord == Chars("ingredient")
InstructionWord == Chars("instruction")
SubstitutionWord == Chars("substitution")
TipWord == Chars("tip")
NutritionWord == Chars("nutrition")
TotalTimeWord == Chars("total time")
ServesWord == Chars("serves")
TotalTimeRequiredWord == Chars("total time required")

\* recipe.split('\n').map(line => line.trim()).filter(Boolean)
recipeLines(text) ==
  Filter(Map(Split(text, NL), Trim), LAMBDA l : l # <<>>)

\* findSection(header): the 0-based index of the first line whose lower-cased
\* text includes the lower-cased header, -1 when no line does. lowered is
\* the lines in lower case, computed once for all the headers.
findSection(lowered, header) ==
  FindIndex(lowered, LAMBDA l : Includes(l, ToLowerCase(header)))

\* extractSection(start, end)
extractSection(lines, start, end) ==
  Filter(Slice(lines, start, end), LAMBDA l : l # <<>>)

\* The section indices of parseRecipeString.
sectionIndices(lines) ==
  LET lowered == Map(lines, ToLowerCase)
  IN  [ title |-> 0,
        ingredients |-> findSection(lowered, IngredientWord),
        instructions |-> findSection(lowered, InstructionWord),
        substitutions |-> findSection(lowered, SubstitutionWord),
        tips |-> findSection(lowered, TipWord),
        nutrition |-> findSection(lowered, NutritionWord),
        time |-> findSection(lowered, TotalTimeWord),
        serves |-> findSection(lowered, ServesWord),
        servingSize |->
          FindIndex(lowered, LAMBDA l :
            \E k \in 1..Len(ServingSizeWords) : Includes(l, ServingSizeWords[k])) ]

\* The ingredients of parseRecipeString.
parseIngredients(lines, ix) ==
  IF ix.ingredients # -1 /\ ix.instructions # -1
  THEN Filter(Map(extractSection(lines, ix.ingredients + 1, ix.instructions),
                  stripBulletsAndNumbers),
              LAMBDA l : Len(l) > 0 /\ ~IsSectionHeading(l))
  ELSE <<>>

\* The instructions of parseRecipeString.
parseInstructions(lines, ix) ==
  IF ix.instructions # -1
  THEN Filter(Map(extractSection(lines, ix.instructions + 1,
                    IF ix.substitutions # -1 THEN ix.substitutions
                    ELSE Len(lines)),
                  stripOrdinal),
              LAMBDA l : Len(l) > 0)
  ELSE <<>>

\* The substitutions of parseRecipeString.
parseSubstitutions(lines, ix) ==
  IF ix.substitutions # -1 /\ ix.tips # -1
  THEN Filter(Map(extractSection(lines, ix.substitutions + 1, ix.tips),
                  stripBulletsAndNumbers),
              LAMBDA l : Len(l) > 0)
  ELSE <<>>

\* The tips of parseRecipeString.
parseTips(lines, ix) ==
  IF ix.tips # -1
  THEN Filter(Map(extractSection(lines, ix.tips + 1,
                    IF ix.nutrition # -1 THEN ix.nutrition ELSE Len(lines)),
                  stripBulletsAndNumbers),
              LAMBDA l : Len(l) > 0)
  ELSE <<>>

\* The nutrition block of parseRecipeString: the lines after the nutrition
\* header up to the first line that starts with a stop word, each followed
\* by a line break, the whole trimmed.
parseNutrition(lines, ix) ==
  IF ix.nutrition = -1 THEN <<>>
  ELSE LET first == ix.nutrition + 2
           stops == {i \in first..Len(lines) :
                       StartsWithAnyCI(lines[i], NutritionStopWords)}
           last  == IF stops = {} THEN Len(lines) ELSE Least(stops) - 1
       IN  Trim(Join(SubSeq(lines, first, last), NL))

UntitledRecipe == Chars("Untitled Recipe")

\* parseRecipeString(recipe)
parseRecipeString(text) ==
  LET lines == recipeLines(text)
      ix == sectionIndices(lines)
  IN  [ title |-> IF Len(lines) > 0 THEN lines[1] ELSE UntitledRecipe,
        ingredients |-> parseIngredients(lines, ix),
        instructions |-> parseInstructions(lines, ix),
        substitutions |-> parseSubstitutions(lines, ix),
        tips |-> parseTips(lines, ix),
        nutrition |-> parseNutrition(lines, ix),
        servings |->
          IF ix.serves # -1
          THEN Trim(RemoveFirstCI(lines[ix.serves + 1], <<ServesWord>>))
          ELSE <<>>,
        servingSize |->
          IF ix.servingSize # -1
          THEN Trim(RemoveFirstCI(lines[ix.servingSize + 1], ServingSizeWords))
          ELSE <<>>,
        totalTime |->
          IF ix.time # -1
          THEN Trim(RemoveFirstCI(lines[ix.time + 1], <<TotalTimeRequiredWord>>))
          ELSE <<>> ]

\* /^(\d+\.|step|instruction|substitution|tip|nutritional|time)/i
FlexibleStopWords ==
  <<Chars("step"), Chars("instruction"), Chars("substitution"), Chars("tip"),
    Chars("nutritional"), Chars("time")>>

startsWithOrdinal(line) ==
  LET e == RunEnd(line, 1, IsDigit)
  IN  e >= 1 /\ e < Len(line) /\ line[e + 1] = "."

\* line.replace(/^[-*<bullet>]\s?/, '')
stripOneBullet(line) ==
  IF Len(line) >= 1 /\ (line[1] = "-" \/ line[1] = "*" \/ line[1] = BulletGlyph)
  THEN IF Len(line) >= 2 /\ IsSpace(line[2]) THEN From(line, 3)
       ELSE From(line, 2)
  ELSE line

\* extractIngredientsFlexible(recipe)
extractIngredientsFlexible(text) ==
  LET lines  == Map(Split(text, NL), Trim)
      ingIdx == FindIndex(lines, LAMBDA l : TestCI(l, IngredientWord))
  IN  IF ingIdx = -1 THEN <<>>
      ELSE LET first == ingIdx + 2
               stops == {i \in first..Len(lines) :
                           \/ startsWithOrdinal(lines[i])
                           \/ StartsWithAnyCI(lines[i], FlexibleStopWords)}
               last  == IF stops = {} THEN Len(lines) ELSE Least(stops) - 1
               accepted == Filter(SubSeq(lines, first, last), LAMBDA l :
                             /\ l # <<>>
                             /\ \/ l[1] = "-"
                                \/ l[1] = "*"
                                \/ startsWithOrdinal(l)
                                \/ IsAlpha(l[1]) \/ IsDigit(l[1])
                             /\ ~TestCI(l, IngredientWord))
               pushed == Map(accepted, LAMBDA l : sanitizeText(stripOneBullet(l)))
           IN  Filter(pushed, LAMBDA l : l # <<>> /\ ~IsSectionHeading(l))

(***************************************************************************)
(* Numbers                                                                 *)
(*                                                                         *)
(* A JavaScript number is the exact rational n/d; d = 0 is Infinity when   *)
(* n > 0 and NaN when n = 0 (no negative number arises: the patterns match *)
(* digits only). The quantities and factors of the model have small        *)
(* numerators and denominators and decimals in halves, for which the       *)
(* double-precision product, Number.isInteger, toFixed(1) and Math.round   *)
(* agree with the exact values computed here.                              *)
(***************************************************************************)

Rat(n, d) == [n |-> n, d |-> d]

IsNaN(x) == x.d = 0 /\ x.n = 0
IsInfinity(x) == x.d = 0 /\ x.n > 0
IsFinite(x) == x.d # 0

\* x * y; Infinity * 0 is NaN.
Times(x, y) == Rat(x.n * y.n, x.d * y.d)

\* x + y for finite x and y.
Plus(x, y) == Rat(x.n * y.d + y.n * x.d, x.d * y.d)

\* x === y for numbers (NaN equals nothing).
NumEq(x, y) ==
  IF IsFinite(x) /\ IsFinite(y) THEN x.n * y.d = y.n * x.d
  ELSE IsInfinity(x) /\ IsInfinity(y)

\* Number.isInteger
NumberIsInteger(x) == IsFinite(x) /\ x.n % x.d = 0

\* 10 to the power k
RECURSIVE Pow10(_)
Pow10(k) == IF k = 0 THEN 1 ELSE 10 * Pow10(k - 1)

\* parseInt(str): the integer a leading run of digits denotes, NaN when the
\* string does not start with a digit. A leading minus sign makes the value
\* negative, which is returned as an integer below zero.
NaN == Rat(0, 0)

parseIntDigits(str) ==
  LET e == RunEnd(str, 1, IsDigit)
  IN  IF e = 0 THEN NaN ELSE Rat(DigitsToNat(SubSeq(str, 1, e)), 1)

\* parseFloat(str) for a string that starts with digits: the digits and,
\* when a point and more digits follow, the decimals; NaN otherwise.
parseFloat(str) ==
  LET e == RunEnd(str, 1, IsDigit)
  IN  IF e = 0 THEN NaN
      ELSE IF e + 1 < Len(str) /\ str[e + 1] = "." /\ IsDigit(str[e + 2])
      THEN LET e2 == RunEnd(str, e + 2, IsDigit)
           IN  Rat(DigitsToNat(SubSeq(str, 1, e)) * Pow10(e2 - e - 1)
                     + DigitsToNat(SubSeq(str, e + 2, e2)),
                   Pow10(e2 - e - 1))
      ELSE Rat(DigitsToNat(SubSeq(str, 1, e)), 1)

\* parseNumber(str)
parseNumber(str) ==
  LET e == RunEnd(str, 1, IsDigit)
  IN  IF /\ e >= 1 /\ e + 1 < Len(str) /\ str[e + 1] = "/"
         /\ RunEnd(str, e + 2, IsDigit) = Len(str)
      THEN Rat(DigitsToNat(SubSeq(str, 1, e)),
               DigitsToNat(SubSeq(str, e + 2, Len(str))))
      ELSE LET v == parseFloat(str)
           IN  IF IsNaN(v) THEN Rat(0, 1) ELSE v

\* Number.prototype.toFixed(1): one decimal, ties away from zero.
toFixed1(x) ==
  IF IsNaN(x) THEN Chars("NaN")
  ELSE IF IsInfinity(x) THEN Chars("Infinity")
  ELSE LET t == (20 * x.n + x.d) \div (2 * x.d)
       IN  NatToChars(t \div 10) \o <<".">> \o NatToChars(t % 10)

\* Math.round for a finite non-negative number.
MathRound(x) == (2 * x.n + x.d) \div (2 * x.d)

(***************************************************************************)
(* RecipeCard.tsx: ingredient scaler                                       *)
(***************************************************************************)

\* The commonFractions table of scaleIngredient: a value equal to a key is
\* rendered as the fraction beside it.
commonFractions ==
  << <<Rat(25, 100), Chars("1/4")>>,
     <<Rat(33, 100), Chars("1/3")>>,
     <<Rat(5, 10),   Chars("1/2")>>,
     <<Rat(67, 100), Chars("2/3")>>,
     <<Rat(75, 100), Chars("3/4")>> >>

\* The replacement callback of scaleIngredient: the matched token times the
\* factor, formatted.
scaleToken(match, scaleFactor) ==
  LET scaled == Times(parseNumber(match), scaleFactor)
      hits == {k \in 1..Len(commonFractions) :
                 NumEq(commonFractions[k][1], scaled)}
  IN  IF NumberIsInteger(scaled) THEN NatToChars(scaled.n \div scaled.d)
      ELSE IF hits # {} THEN commonFractions[Least(hits)][2]
      ELSE toFixed1(scaled)

\* The end of the match of one of the three patterns of scaleIngredient at
\* position i of s, 0 when the pattern does not match there:
\* "fraction" /(\d+\/\d+)/, "decimal" /(\d+\.\d+)/, "integer" /(\d+)/.
tokenEnd(s, i, pattern) ==
  LET e == RunEnd(s, i, IsDigit)
      sep == IF pattern = "fraction" THEN "/" ELSE "."
  IN  IF e < i THEN 0
      ELSE IF pattern = "integer" THEN e
      ELSE IF e + 1 < Len(s) /\ s[e + 1] = sep /\ IsDigit(s[e + 2])
      THEN RunEnd(s, e + 2, IsDigit)
      ELSE 0

\* s.replace(pattern, callback) with the g flag: every match, leftmost first
\* and not overlapping, is replaced by its scaled rendering.
RECURSIVE scalePass(_, _, _)
scalePass(s, pattern, scaleFactor) ==
  LET at == {i \in 1..Len(s) : tokenEnd(s, i, pattern) > 0}
  IN  IF at = {} THEN s
      ELSE LET i == Least(at)
               e == tokenEnd(s, i, pattern)
           IN  SubSeq(s, 1, i - 1)
                 \o scaleToken(SubSeq(s, i, e), scaleFactor)
                 \o scalePass(From(s, e + 1), pattern, scaleFactor)

\* The patterns of scaleIngredient, in the order of the loop.
patterns == <<"fraction", "decimal", "integer">>

\* The loop "for (const pattern of patterns)" from pattern number k on: each
\* pattern is applied to the result of the one before.
RECURSIVE scaleFrom(_, _, _)
scaleFrom(scaledIngredient, k, scaleFactor) ==
  IF k > Len(patterns) THEN scaledIngredient
  ELSE scaleFrom(scalePass(scaledIngredient, patterns[k], scaleFactor),
                 k + 1, scaleFactor)

\* scaleIngredient(ingredient, scaleFactor)
scaleIngredient(ingredient, scaleFactor) ==
  scaleFrom(ingredient, 1, scaleFactor)

\* A parse that reads the minutes and not the hours.
minutesGroupOnly(timeStr) ==
  LET at == {i \in 1..Len(timeStr) :
               /\ IsDigit(timeStr[i])
               /\ RunEnd(timeStr, i, IsDigit) < Len(timeStr)
               /\ timeStr[RunEnd(timeStr, i, IsDigit) + 1] = "m"}
  IN  IF at = {} THEN 0
      ELSE DigitsToNat(SubSeq(timeStr, Least(at),
                              RunEnd(timeStr, Least(at), IsDigit)))

\* parseTimeToMinutes(timeStr): the first digits followed, after optional
\* white space, by h are the hours, those followed by m the minutes.
timeGroup(timeStr, unit) ==
  LET ends(i) == RunEnd(timeStr, i, IsDigit)
      hit(i) == /\ ends(i) >= i
                /\ LET j == RunEnd(timeStr, ends(i) + 1, IsSpace) + 1
                   IN  j <= Len(timeStr) /\ LowerChar(timeStr[j]) = unit
      at == {i \in 1..Len(timeStr) : hit(i)}
  IN  IF at = {} THEN 0
      ELSE DigitsToNat(SubSeq(timeStr, Least(at), ends(Least(at))))

parseTimeToMinutes(timeStr) ==
  timeGroup(timeStr, "h") * 60 + timeGroup(timeStr, "m")

\* formatTimeFromMinutes(totalMinutes)
formatTimeFromMinutes(totalMinutes) ==
  LET hours == totalMinutes \div 60
      minutes == totalMinutes % 60
  IN  IF hours > 0
      THEN Trim(NatToChars(hours) \o Chars("h ")
                 \o (IF minutes > 0 THEN NatToChars(minutes) \o Chars("m")
                     ELSE <<>>))
      ELSE NatToChars(minutes) \o Chars("m")

(***************************************************************************)
(* RecipeCard.tsx: nutrition sub-parser                                    *)
(***************************************************************************)

IsStar(c) == c = "*"

\* line.replace(/^\*+|\*+$/g, '').trim()
cleanNutritionLine(line) ==
  LET rest == From(line, RunEnd(line, 1, IsStar) + 1)
      keep == {i \in 1..Len(rest) : rest[i] # "*"}
      last == IF keep = {} THEN 0 ELSE Greatest(keep)
  IN  Trim(SubSeq(rest, 1, last))

\* The lines of the nutrition block, cleaned: an empty block has none
\* (the scans are guarded by "if (parsedRecipe.nutrition)").
nutritionLines(nutrition) ==
  IF nutrition = <<>> THEN <<>>
  ELSE Map(Split(nutrition, NL), cleanNutritionLine)

\* /^(calories( per serving)?|estimated calories|energy)[:]?/i
CaloriesWords == <<Chars("calories"), Chars("estimated calories"), Chars("energy")>>

\* /^protein|carb|fat|sodium|fiber|vitamin|iron|calcium|potassium/i: the
\* anchor binds the first alternative only.
OtherFactWords ==
  <<Chars("carb"), Chars("fat"), Chars("sodium"), Chars("fiber"),
    Chars("vitamin"), Chars("iron"), Chars("calcium"), Chars("potassium")>>

isOtherFactLine(clean) ==
  \/ MatchAtCI(clean, 1, Chars("protein"))
  \/ \E k \in 1..Len(OtherFactWords) : TestCI(clean, OtherFactWords[k])

\* const [label, ...rest] = clean.split(':')
labelOf(clean) == Split(clean, ":")[1]
hasRest(clean) == Len(Split(clean, ":")) > 1
restOf(clean) == From(clean, Len(labelOf(clean)) + 2)

\* The key under which a cleaned nutrition line is stored in nutritionFacts,
\* <<>> when the line stores nothing.
factKey(clean) ==
  IF TestCI(clean, Chars("note")) THEN <<>>
  ELSE IF StartsWithAnyCI(clean, CaloriesWords)
  THEN (IF labelOf(clean) # <<>> /\ hasRest(clean) THEN Chars("Calories")
        ELSE <<>>)
  ELSE IF isOtherFactLine(clean)
  THEN (IF labelOf(clean) # <<>> /\ hasRest(clean)
        THEN stripMarkdown(labelOf(clean)) ELSE <<>>)
  ELSE <<>>

\* nutritionFacts[key] after the scan of the nutrition block: the value of
\* the last line stored under key; <<>> stands for undefined (every use of
\* a fact tests it for truthiness, where undefined and '' agree).
parsedFact(nutrition, key) ==
  LET ls == nutritionLines(nutrition)
      hits == {i \in 1..Len(ls) : factKey(ls[i]) = key}
  IN  IF hits = {} THEN <<>>
      ELSE stripMarkdown(restOf(ls[Greatest(hits)]))

(***************************************************************************)
(* RecipeCard.tsx: calorie estimation fallback                             *)
(***************************************************************************)

\* calorieLookup, in insertion order (the order of "for (const key in ...)").
calorieLookup ==
  << <<Chars("olive oil"), 120>>,
     <<Chars("onion"), 45>>,
     <<Chars("garlic"), 4>>,
     <<Chars("ginger"), 2>>,
     <<Chars("turmeric powder"), 8>>,
     <<Chars("cumin powder"), 8>>,
     <<Chars("coriander powder"), 6>>,
     <<Chars("garam masala"), 8>>,
     <<Chars("red pepper flakes"), 6>>,
     <<Chars("spinach"), 7>>,
     <<Chars("vegetable broth"), 10>>,
     <<Chars("goat cheese"), 75>>,
     <<Chars("cilantro"), 1>>,
     <<Chars("brown rice"), 110>> >>

GoatCheesePortionGrams == 30

\* The multiplier of one ingredient for table entry key.
calorieMultiplier(ingredient, key) ==
  LET digitsAt == {i \in 1..Len(ingredient) : IsDigit(ingredient[i])}
      first == IF digitsAt = {} THEN Rat(1, 1)
               ELSE parseFloat(From(ingredient, Least(digitsAt)))
      grams == {i \in digitsAt :
                  LET e == RunEnd(ingredient, i, IsDigit)
                  IN  e < Len(ingredient) /\ ingredient[e + 1] = "g"}
  IN  IF key = Chars("goat cheese") /\ grams # {}
      THEN Rat(DigitsToNat(SubSeq(ingredient, Least(grams),
                                  RunEnd(ingredient, Least(grams), IsDigit))),
               GoatCheesePortionGrams)
      ELSE first

\* What one ingredient adds to totalCalories: the first table entry whose
\* name the lower-cased ingredient includes, times the multiplier.
ingredientCalories(ingredient) ==
  LET hits == {k \in 1..Len(calorieLookup) :
                 Includes(ToLowerCase(ingredient), calorieLookup[k][1])}
  IN  IF hits = {} THEN Rat(0, 1)
      ELSE LET k == Least(hits)
           IN  Times(Rat(calorieLookup[k][2], 1),
                     calorieMultiplier(ingredient, calorieLookup[k][1]))

RECURSIVE totalCalories(_)
totalCalories(ingredients) ==
  IF ingredients = <<>> THEN Rat(0, 1)
  ELSE Plus(ingredientCalories(ingredients[1]), totalCalories(Tail(ingredients)))

\* nutritionFacts['Calories'] after the parse and the fallback.
caloriesFact(nutrition, ingredients) ==
  LET direct == parsedFact(nutrition, Chars("Calories"))
      total == totalCalories(ingredients)
  IN  IF direct # <<>> THEN direct
      ELSE IF Len(ingredients) > 0 /\ total.n > 0
      THEN Chars("~") \o NatToChars(MathRound(total)) \o Chars(" (estimated)")
      ELSE <<>>

(***************************************************************************)
(* RecipeCard.tsx: times and serving size                                  *)
(***************************************************************************)

\* The value of the last nutrition line that contains the label: the first
\* occurrence of the label (and a colon after it) removed, markdown stripped.
embeddedTime(nutrition, label) ==
  LET ls == nutritionLines(nutrition)
      hits == {i \in 1..Len(ls) : TestCI(ls[i], label)}
  IN  IF hits = {} THEN <<>>
      ELSE stripMarkdown(RemoveFirstCI(
             ls[Greatest(hits)], <<label>>))

prepTimeOf(parsed) == embeddedTime(parsed.nutrition, Chars("prep time"))
cookTimeOf(parsed) == embeddedTime(parsed.nutrition, Chars("cook time"))

\* totalTime of RecipeCard after the derivation.
totalTimeOf(parsed) ==
  LET prepTime == prepTimeOf(parsed)
      cookTime == cookTimeOf(parsed)
      embedded == embeddedTime(parsed.nutrition, Chars("total time"))
      computedTotalMinutes ==
        parseTimeToMinutes(prepTime) + parseTimeToMinutes(cookTime)
  IN  IF prepTime # <<>> /\ cookTime # <<>>
      THEN (IF computedTotalMinutes > 0
            THEN formatTimeFromMinutes(computedTotalMinutes)
            ELSE embedded)
      ELSE IF /\ parsed.totalTime # <<>>
              /\ ToLowerCase(parsed.totalTime) # Chars("required:")
              /\ Trim(parsed.totalTime) # <<>>
      THEN stripMarkdown(parsed.totalTime)
      ELSE embedded

\* The placeholder of an unknown value, the dash U+2014 in the source; the
\* module is ASCII, so "=", which occurs nowhere else, stands for it.
EmDash == "="

\* getMinutes(timeStr)
getMinutes(timeStr) ==
  IF timeStr = <<>> THEN <<EmDash>>
  ELSE IF parseTimeToMinutes(timeStr) > 0
  THEN NatToChars(parseTimeToMinutes(timeStr)) \o Chars(" minutes")
  ELSE <<EmDash>>

\* formattedTotalTime
formattedTotalTimeOf(parsed) ==
  LET prepTime == prepTimeOf(parsed)
      cookTime == cookTimeOf(parsed)
      totalMinutes ==
        (IF prepTime # <<>> THEN parseTimeToMinutes(prepTime) ELSE 0)
        + (IF cookTime # <<>> THEN parseTimeToMinutes(cookTime) ELSE 0)
  IN  IF totalMinutes > 0 THEN NatToChars(totalMinutes) \o Chars(" minutes")
      ELSE <<EmDash>>

\* servingSize.match(/([\d.]+\s*\w+)\s+per\s+serving/i): the matched text
\* match[0], <<>> when there is no match. A match is a run of digits and
\* points, optional white space, a word, white space, "per", white space,
\* "serving"; the leftmost start wins. The matches are found from each
\* occurrence d of "per": c is the end of the word before it, a the end of
\* the run of digits and points before that word.
perServingMatch(str) ==
  LET IsNum(c) == IsDigit(c) \/ c = "."
      servingAt(d) == RunEnd(str, d + 3, IsSpace) + 1
      pers == {d \in 2..Len(str) :
                 /\ MatchAtCI(str, d, Chars("per"))
                 /\ IsSpace(str[d - 1])
                 /\ servingAt(d) > d + 3
                 /\ MatchAtCI(str, servingAt(d), Chars("serving"))}
      wordEnd(d) == RunStart(str, d - 1, IsSpace) - 1
      wordStart(d) == RunStart(str, wordEnd(d), IsWord)
      numEnds(d) ==
        IF wordEnd(d) < 1 \/ wordStart(d) > wordEnd(d) THEN {}
        ELSE {a \in wordStart(d)..(wordEnd(d) - 1) : IsDigit(str[a])}
             \cup {a \in {RunStart(str, wordStart(d) - 1, IsSpace) - 1} :
                     a >= 1 /\ IsNum(str[a])}
      pairs == UNION {{<<RunStart(str, a, IsNum), servingAt(d) + 6>> :
                         a \in numEnds(d)} : d \in pers}
  IN  IF pairs = {} THEN <<>>
      ELSE LET i == Least({m[1] : m \in pairs})
               e == Least({m[2] : m \in {m \in pairs : m[1] = i}})
           IN  SubSeq(str, i, e)

\* servingSize.replace(/^(a|an)\s+/i, '').replace(/\.$/, '')
dropArticleAndPeriod(str) ==
  LET alen == IF MatchAtCI(str, 1, Chars("a")) /\ Len(str) >= 2 /\ IsSpace(str[2])
              THEN 1
              ELSE IF MatchAtCI(str, 1, Chars("an")) /\ Len(str) >= 3
                      /\ IsSpace(str[3])
              THEN 2 ELSE 0
      s1 == IF alen = 0 THEN str
            ELSE From(str, RunEnd(str, alen + 1, IsSpace) + 1)
  IN  IF s1 # <<>> /\ s1[Len(s1)] = "." THEN SubSeq(s1, 1, Len(s1) - 1) ELSE s1

ServingSizeNotSpecified == Chars("Serving size not specified")

\* displayServingSize
displayServingSizeOf(parsed) ==
  IF /\ parsed.servingSize # <<>>
     /\ ~Includes(stripMarkdown(parsed.servingSize), Chars("("))
     /\ ~TestCI(stripMarkdown(parsed.servingSize), Chars("note"))
  THEN (IF perServingMatch(parsed.servingSize) # <<>>
        THEN perServingMatch(parsed.servingSize)
        ELSE Chars("1 ") \o dropArticleAndPeriod(parsed.servingSize)
               \o Chars(" per serving"))
  ELSE IF parsed.servings # <<>>
  THEN Chars("1 of ") \o stripMarkdown(parsed.servings)
         \o Chars(" portions (estimated)")
  ELSE ServingSizeNotSpecified

\* extractNumber(str): the runs of digits of str joined by "-".
extractNumber(str) ==
  LET starts == {i \in 1..Len(str) :
                   IsDigit(str[i]) /\ (i = 1 \/ ~IsDigit(str[i - 1]))}
      runs == Map(Filter([i \in 1..Len(str) |-> i], LAMBDA i : i \in starts),
                  LAMBDA i : SubSeq(str, i, RunEnd(str, i, IsDigit)))
  IN  Join(runs, "-")

\* formattedServingSize: the string rendered beside "Serving size:".
formattedServingSizeOf(parsed) ==
  IF parsed.servings # <<>>
  THEN extractNumber(parsed.servings) \o Chars(" servings")
  ELSE IF parsed.servingSize # <<>>
  THEN extractNumber(parsed.servingSize) \o Chars(" servings")
  ELSE <<EmDash>> \o Chars(" servings")

\* formattedNutrition.Calories
formattedCalories(fact) ==
  IF fact # <<>>
  THEN Chars("Approximately ") \o extractNumber(fact) \o Chars(" calories")
  ELSE Chars("Approximately ") \o <<EmDash>> \o Chars(" calories")

\* formattedNutrition.Protein, .Carbs, .Fat
formattedGrams(fact) ==
  IF fact # <<>> THEN extractNumber(fact) \o Chars(" grams")
  ELSE <<EmDash>> \o Chars(" grams")

(***************************************************************************)
(* gemini.ts (latest version): getRecipeFromGemini                         *)
(***************************************************************************)

\* The sign U+2248 of the validation patterns; the module is ASCII, so "^",
\* which occurs nowhere else, stands for it.
ApproxGlyph == "^"

CaloriesLabel == Chars("Calories")
ProteinLabel == Chars("Protein")
ApproximatelyWord == Chars("Approximately")

\* /<label>\s*:\s*[~<approx>]?(Approximately\s*)?\d+/i.test(recipeText)
hasLabelledNumber(recipeText, label) ==
  \E i \in 1..Len(recipeText) :
    /\ MatchAtCI(recipeText, i, label)
    /\ LET c == RunEnd(recipeText, i + Len(label), IsSpace) + 1
       IN  /\ c <= Len(recipeText)
           /\ recipeText[c] = ":"
           /\ LET j == RunEnd(recipeText, c + 1, IsSpace) + 1
                  k == IF j <= Len(recipeText)
                          /\ (recipeText[j] = "~" \/ recipeText[j] = ApproxGlyph)
                       THEN j + 1 ELSE j
                  m == IF MatchAtCI(recipeText, k, ApproximatelyWord)
                       THEN RunEnd(recipeText, k + Len(ApproximatelyWord), IsSpace) + 1
                       ELSE k
              IN  m <= Len(recipeText) /\ IsDigit(recipeText[m])

IncompleteNutritionWarning ==
  "Nutrition information is incomplete: Calories or Protein is missing."
Undefined == "undefined"
InvalidResponseFormat == "Invalid response format from Gemini API"
GeminiApiError == "Gemini API error"

\* A warning raised only when both entries are missing.
warningWhenBothMissing(recipeText) ==
  IF ~hasLabelledNumber(recipeText, CaloriesLabel)
     /\ ~hasLabelledNumber(recipeText, ProteinLabel)
  THEN IncompleteNutritionWarning
  ELSE Undefined

\* The warning getRecipeFromGemini computes for a recipe text.
nutritionWarning(recipeText) ==
  IF ~hasLabelledNumber(recipeText, CaloriesLabel)
     \/ ~hasLabelledNumber(recipeText, ProteinLabel)
  THEN IncompleteNutritionWarning
  ELSE Undefined

\* getRecipeFromGemini once the request was sent: response.ok tells whether
\* the service answered with success, text is the generated text of the
\* answer (empty when the answer has none). The call returns
\* {recipe, warning} or throws an Error with the message given.
getRecipeFromGemini(ok, text) ==
  IF ~ok THEN [threw |-> TRUE, message |-> GeminiApiError,
               recipe |-> <<>>, warning |-> Undefined]
  ELSE IF text = <<>>
  THEN [threw |-> TRUE, message |-> InvalidResponseFormat,
        recipe |-> <<>>, warning |-> Undefined]
  ELSE [threw |-> FALSE, message |-> Undefined,
        recipe |-> text, warning |-> nutritionWarning(text)]

(***************************************************************************)
(* The generated texts                                                     *)
(*                                                                         *)
(* A generated recipe is a title line and sections in the order the prompt *)
(* asks for; a section is its header line followed by its lines, <<>> when *)
(* the generator left the section out. Sections are separated by an empty  *)
(* line.                                                                   *)
(***************************************************************************)

\* The most lines of an ingredients section and of an instructions section.
MaxIngredients == 2
MaxInstructions == 2
\* The largest number typed into the "Adjust servings" input.
MaxDesired == 3

TitleLine == Chars("Fried Rice")
IngredientsHeader == Chars("Ingredients:")
InstructionsHeader == Chars("Instructions:")
SubstitutionsHeader == Chars("Substitutions:")
TipsHeader == Chars("Cooking Tips:")
NutritionHeader == Chars("Nutrition:")

IngredientPool ==
  << Chars("- 2 tablespoons olive oil"),
     Chars("* 1 medium onion"),
     Chars("2 cups rice"),
     Chars("- 1/2 cup spinach"),
     Chars("1. 60g goat cheese"),
     Chars("- 1.5 cups peas"),
     Chars("salt") >>

InstructionPool ==
  << Chars("1. Chop onion."), Chars("2. Fry rice."), Chars("Serve hot"),
     Chars("4. Enjoy") >>

Absent == <<>>

IngredientSections ==
  {<<IngredientsHeader>> \o w :
     w \in {SubSeq(IngredientPool, i, Min(i + n - 1, Len(IngredientPool))) :
              i \in 1..Len(IngredientPool), n \in 1..MaxIngredients}}

InstructionSections ==
  {<<InstructionsHeader>> \o SubSeq(InstructionPool, 1, n) :
     n \in 1..Min(MaxInstructions, Len(InstructionPool))}

SubstitutionsSection == <<SubstitutionsHeader, Chars("- Rice: quinoa")>>
TipsSection == <<TipsHeader, Chars("- Use cold rice")>>

NutritionPlain == <<NutritionHeader, Chars("Calories: 400"), Chars("Protein: 10g")>>
NutritionNoCalories == <<NutritionHeader, Chars("Protein: 10g")>>
NutritionMarkdown ==
  <<NutritionHeader, Chars("**Calories:** 350"), Chars("**Protein:** 12g"),
    Chars("**Prep Time:** 10m"), Chars("**Cook Time:** 1h 5m")>>
NutritionZeroTimes ==
  <<NutritionHeader, Chars("Calories: 400"), Chars("Protein: 10g"),
    Chars("- Prep time: 0m"), Chars("- Cook time: 0m")>>
NutritionBulleted ==
  <<NutritionHeader, Chars("- Calories: 300"), Chars("- Protein: 8g")>>
NutritionPrepOnly ==
  <<NutritionHeader, Chars("Calories: ~250"), Chars("Protein: 9g"),
    Chars("* Prep time: 15 min")>>

NutritionTenTwenty ==
  <<NutritionHeader, Chars("Calories: 400"), Chars("Protein: 10g"),
    Chars("**Prep Time:** 10m"), Chars("**Cook Time:** 20m")>>
NutritionHourTen ==
  <<NutritionHeader, Chars("Calories: 400"), Chars("Protein: 10g"),
    Chars("**Prep Time:** 1h 10m"), Chars("**Cook Time:** 0m")>>

NutritionSections ==
  {NutritionPlain, NutritionNoCalories, NutritionMarkdown, NutritionZeroTimes,
   NutritionBulleted, NutritionPrepOnly, NutritionTenTwenty, NutritionHourTen}

TimeSections ==
  {<<Chars("Total Time Required: 45 minutes")>>,
   <<Chars("Total Time Required:")>>}

ServesPlain == <<Chars("Serves: 2")>>
ServesSections ==
  {ServesPlain, <<Chars("Serves 2-3 people")>>, <<Chars("**Serves:** 4")>>,
   <<Chars("Serves: 3")>>}

ServingSizeSections ==
  {<<Chars("Serving size: 1 cup per serving")>>,
   <<Chars("Yield: a large bowl.")>>,
   <<Chars("Portion size: 1 cup (250g)")>>}

Doc(ing, ins, sub, tip, nut, tim, srv, ssz) ==
  [ title |-> TitleLine, ingredients |-> ing, instructions |-> ins,
    substitutions |-> sub, tips |-> tip, nutrition |-> nut, time |-> tim,
    serves |-> srv, servingSize |-> ssz ]

\* Ingredients and instructions of every shape, without and with plain
\* nutrition facts and a serves line, or with nutrition facts without
\* calories.
DocsLists ==
  {Doc(ing, ins, Absent, Absent, tail[1], Absent, tail[2], Absent) :
     ing \in IngredientSections \cup {Absent},
     ins \in InstructionSections \cup {Absent},
     tail \in {<<Absent, Absent>>, <<NutritionPlain, ServesPlain>>,
               <<NutritionNoCalories, Absent>>}}

\* Every combination of sections present and left out.
DocsSections ==
  {Doc(ing, ins, sub, tip, nut, Absent, Absent, Absent) :
     ing \in {Absent, <<IngredientsHeader>> \o SubSeq(IngredientPool, 1, 2)},
     ins \in InstructionSections \cup {Absent},
     sub \in {Absent, SubstitutionsSection},
     tip \in {Absent, TipsSection},
     nut \in {Absent, NutritionPlain}}

\* Every shape of the nutrition block with every total-time line.
DocsTimes ==
  {Doc(<<IngredientsHeader>> \o SubSeq(IngredientPool, 1, 2),
       <<InstructionsHeader>> \o SubSeq(InstructionPool, 1, 1),
       Absent, Absent, nut, tim, Absent, Absent) :
     nut \in NutritionSections \cup {Absent},
     tim \in TimeSections \cup {Absent}}

\* Every serves line with every serving-size line.
DocsServings ==
  {Doc(<<IngredientsHeader>> \o SubSeq(IngredientPool, 1, 2),
       <<InstructionsHeader>> \o SubSeq(InstructionPool, 1, 1),
       Absent, Absent, NutritionPlain, Absent, srv, ssz) :
     srv \in ServesSections \cup {Absent},
     ssz \in ServingSizeSections \cup {Absent}}

Docs == DocsLists \cup DocsSections \cup DocsTimes \cup DocsServings

\* The sections of a generated recipe in the order of the text.
sectionsOf(doc) ==
  <<doc.ingredients, doc.instructions, doc.substitutions, doc.tips,
    doc.nutrition, doc.time, doc.serves, doc.servingSize>>

\* The text of a generated recipe: the title, then each section that is
\* present after an empty line.
RECURSIVE joinSections(_)
joinSections(secs) ==
  IF secs = <<>> THEN <<>>
  ELSE (IF secs[1] = Absent THEN <<>>
        ELSE <<NL, NL>> \o Join(secs[1], NL)) \o joinSections(Tail(secs))

TextOf(doc) == doc.title \o joinSections(sectionsOf(doc))

\* No generated recipe: no title either.
NoDoc ==
  [Doc(Absent, Absent, Absent, Absent, Absent, Absent, Absent, Absent)
     EXCEPT !.title = <<>>]

(***************************************************************************)
(* Recipe texts of any shape                                               *)
(*                                                                         *)
(* The service may answer with any text. The texts below are made of an    *)
(* optional title line and blocks: up to MaxBlocks blocks that follow each *)
(* other in a round of blocks, forwards or backwards, or one block twice;  *)
(* the empty text and the text of a title alone are among them.            *)
(***************************************************************************)

\* The most blocks of a run of blocks.
MaxBlocks == 2

IngredientsBlock ==
  <<IngredientsHeader, Chars("- 2 tablespoons olive oil"),
    Chars("1 medium onion"), Chars("1/2 cup spinach"), Chars("1/3 cup milk"),
    Chars("salt")>>
InstructionsBlock == <<InstructionsHeader, Chars("1. Chop onion.")>>
EmptyTipsBlock == <<TipsHeader>>
OddNutritionBlock ==
  <<NutritionHeader, Chars("Calories: high"), Chars("Protein: 10g"),
    Chars("- Prep time: 10m"), Chars("- Cook time: soon"),
    Chars("Serves: a crowd")>>
ZeroServesBlock == <<Chars("Serves: 0")>>
\* A serving size written the way the prompt suggests ("serves 2-3 people").
ServingSizeServesBlock == <<Chars("Serving size: serves 2-3 people")>>
\* Nutrition facts with the times as plain lines below them.
PlainTimesNutritionBlock ==
  <<NutritionHeader, Chars("Calories: 400"), Chars("Prep time: 10m"),
    Chars("Cook time: 20m")>>

\* The blocks, in a round.
BlockPool ==
  <<OddNutritionBlock, IngredientsBlock, InstructionsBlock, EmptyTipsBlock,
    SubstitutionsSection, ZeroServesBlock, ServingSizeServesBlock,
    PlainTimesNutritionBlock>>

\* The n blocks of the round from block k on, forwards (step 1) or
\* backwards (step -1).
BlockRun(k, n, step) ==
  [j \in 1..n |->
     BlockPool[((k - 1 + step * (j - 1) + n * Len(BlockPool)) % Len(BlockPool)) + 1]]

\* No block, the runs of 1 to n blocks, and each block twice.
BlockSeqs(n) ==
  {<<>>}
    \cup {BlockRun(k, m, step) :
            k \in 1..Len(BlockPool), m \in 1..n, step \in {1, -1}}
    \cup {<<BlockPool[k], BlockPool[k]>> : k \in 1..Len(BlockPool)}

\* A text: the blocks, each after an empty line, below the title if any.
EdgeText(title, blocks) ==
  LET body == joinSections(blocks)
  IN  IF title # <<>> THEN title \o body
      ELSE IF body = <<>> THEN <<>> ELSE From(body, 3)

\* The line the prompt numbers the title with, and a title below it.
TitleMarker == Chars("1. Recipe Title")
MarkedTitle == TitleMarker \o <<NL>> \o TitleLine

EdgeTexts ==
  {EdgeText(title, blocks) :
     title \in {<<>>, TitleLine, MarkedTitle}, blocks \in BlockSeqs(MaxBlocks)}

(***************************************************************************)
(* RecipeCard.tsx: the component's state and render                        *)
(***************************************************************************)

\* parseInt(str) for a string without leading white space: an optional sign
\* and the run of digits after it; nan when no digit follows.
parseInt(str) ==
  LET neg == Len(str) >= 1 /\ str[1] = "-"
      from == IF Len(str) >= 1 /\ (str[1] = "-" \/ str[1] = "+") THEN 2 ELSE 1
      e == RunEnd(str, from, IsDigit)
  IN  IF e < from THEN [nan |-> TRUE, v |-> 0]
      ELSE [nan |-> FALSE,
            v |-> IF neg THEN 0 - DigitsToNat(SubSeq(str, from, e))
                  ELSE DigitsToNat(SubSeq(str, from, e))]

\* str.match(/\d+/): the first run of digits, <<>> for null.
firstDigits(str) ==
  LET at == {i \in 1..Len(str) : IsDigit(str[i])}
  IN  IF at = {} THEN <<>>
      ELSE SubSeq(str, Least(at), RunEnd(str, Least(at), IsDigit))

InitialServings == 1

\* The servings effect of RecipeCard: the value it sets originalServings
\* and desiredServings to, given the value they have.
servingsAfterEffect(parsed, current) ==
  IF parsed.servings # <<>> /\ firstDigits(parsed.servings) # <<>>
  THEN parseInt(firstDigits(parsed.servings)).v
  ELSE current

\* The onChange handler of the "Adjust servings" input:
\* Math.max(1, parseInt(e.target.value) || 1)
desiredFromInput(value) ==
  LET p == parseInt(value)
  IN  Max(1, IF p.nan \/ p.v = 0 THEN 1 ELSE p.v)

\* The ingredients RecipeCard works with: the parsed ones, sanitized, or
\* those of the flexible extraction when the parse found none.
cardIngredients(parsed, text) ==
  IF Len(parsed.ingredients) > 0 THEN Map(parsed.ingredients, sanitizeText)
  ELSE extractIngredientsFlexible(text)

\* The factor the ingredients are scaled by.
scaleFactorOf(desired, original) == Rat(desired, original)

\* The parsed recipe of a card that is not mounted.
NoRecipe == parseRecipeString(<<>>)

\* const parsedRecipe = parseRecipeString(recipe), at every render. The
\* function is pure, so its values on the generated texts are tabulated once.
RecipeTexts == {TextOf(doc) : doc \in Docs} \cup EdgeTexts
parseTable == [text \in RecipeTexts |-> parseRecipeString(text)] @@ <<>>
parsedOf(text) ==
  IF text \in RecipeTexts THEN parseTable[text] ELSE parseRecipeString(text)

(***************************************************************************)
(* replicate.ts: getRecipeImage                                            *)
(*                                                                         *)
(* What replicate.run does is either a throw or an output: an array of     *)
(* image addresses, a single address, an object or null.                   *)
(***************************************************************************)

\* null
NULL == "null"

\* The longest array the image service answers with.
MaxOutputs == 2

ImageUrls == {"https://img/1.png", "https://img/2.png"}

\* The arrays of 0 to n addresses.
RECURSIVE UrlArrays(_)
UrlArrays(n) ==
  IF n = 0 THEN {<<>>}
  ELSE UrlArrays(n - 1)
         \cup {<<u>> \o a : u \in ImageUrls,
                            a \in {b \in UrlArrays(n - 1) : Len(b) = n - 1}}

\* What replicate.run may do.
ServiceOutcomes ==
  {[threw |-> FALSE, kind |-> "array", items |-> a] : a \in UrlArrays(MaxOutputs)}
    \cup {[threw |-> FALSE, kind |-> k, items |-> <<>>] :
            k \in {"string", "object", "null"}}
    \cup {[threw |-> TRUE, kind |-> "error", items |-> <<>>]}

NoOutcome == [threw |-> FALSE, kind |-> "none", items |-> <<>>]
NoImageCall == [status |-> "idle", prompt |-> <<>>, value |-> NULL]

\* getRecipeImage without its try and catch: the throw of the service
\* rejects the promise.
getRecipeImageNoCatch(prompt, outcome) ==
  IF outcome.threw
  THEN [status |-> "rejected", prompt |-> prompt, value |-> NULL]
  ELSE IF outcome.kind = "array" /\ Len(outcome.items) > 0
  THEN [status |-> "fulfilled", prompt |-> prompt, value |-> outcome.items[1]]
  ELSE [status |-> "fulfilled", prompt |-> prompt, value |-> NULL]

\* getRecipeImage(prompt) once replicate.run settled with the outcome: how
\* its promise settles.
getRecipeImage(prompt, outcome) ==
  IF outcome.threw
  THEN [status |-> "fulfilled", prompt |-> prompt, value |-> NULL]
  ELSE IF outcome.kind = "array" /\ Len(outcome.items) > 0
  THEN [status |-> "fulfilled", prompt |-> prompt, value |-> outcome.items[1]]
  ELSE [status |-> "fulfilled", prompt |-> prompt, value |-> NULL]

(***************************************************************************)
(* page.tsx (Home) and RecipeCard: state and operations                    *)
(***************************************************************************)

BlankIngredientsError == "Where are the ingredients at, bro?"

\* What the user types into the ingredients box.
TypedIngredients == {Chars(" "), Chars("rice")}

\* What the user enters into the "Adjust servings" input.
ServingsInputs ==
  {<<>>, Chars("0"), Chars("-2")} \cup {NatToChars(n) : n \in 1..MaxDesired}

(***************************************************************************)
(* page.tsx (Home): ingredients to substitute                              *)
(***************************************************************************)

IngredientsWord == Chars("ingredients")
IngredientListWord == Chars("ingredient list")

\* The words that end the ingredients of the page's extraction.
NextSectionWords == <<Chars("instructions"), Chars("directions"), Chars("method")>>

\* line.toLowerCase().includes('ingredients') ||
\* line.toLowerCase().includes('ingredient list')
namesIngredients(line) ==
  \/ Includes(ToLowerCase(line), IngredientsWord)
  \/ Includes(ToLowerCase(line), IngredientListWord)

\* The effect of Home on a new recipe: whether the text has a line that
\* names the ingredients, and the ingredient lines below it up to the line
\* that names the next section.
extractAvailable(text) ==
  LET lines == Split(text, NL)
      ingredientsStartIndex == FindIndex(lines, namesIngredients)
  IN  IF ingredientsStartIndex = -1 THEN [found |-> FALSE, items |-> <<>>]
      ELSE LET rest == Slice(lines, ingredientsStartIndex + 1, Len(lines))
               stops == {i \in 1..Len(rest) :
                           \E k \in 1..Len(NextSectionWords) :
                             Includes(ToLowerCase(rest[i]), NextSectionWords[k])}
               upto == IF stops = {} THEN Len(rest) ELSE Least(stops) - 1
               kept == Filter(SubSeq(rest, 1, upto), LAMBDA l : Trim(l) # <<>>)
               plain == Filter(Map(kept, Trim),
                               LAMBDA l : ~namesIngredients(l) /\ Trim(l) # <<>>)
           IN  [found |-> TRUE, items |-> Map(plain, stripBulletsAndNumbers)]

\* toggleIngredient: the selection without the ingredient when it holds it,
\* with the ingredient at its end when it does not.
toggled(selected, ingredient) ==
  IF \E i \in 1..Len(selected) : selected[i] = ingredient
  THEN Filter(selected, LAMBDA i : i # ingredient)
  ELSE Append(selected, ingredient)

\* An answer of the service in the format its prompt asks for: for each
\* ingredient a bullet and its name, a substitute on the line below, and an
\* empty line between the ingredients.
SubstituteLine == Chars("  another one (Note: milder)")

RECURSIVE substitutionsAnswer(_)
substitutionsAnswer(names) ==
  IF names = <<>> THEN <<>>
  ELSE <<BulletGlyph, " ">> \o names[1] \o <<NL>> \o SubstituteLine
         \o (IF Len(names) = 1 THEN <<>>
             ELSE <<NL, NL>> \o substitutionsAnswer(Tail(names)))

\* getSubstitutionsFromGemini once the request was sent: the text of the
\* answer, or an Error with the message given.
getSubstitutionsFromGemini(ok, text) ==
  IF ~ok THEN [threw |-> TRUE, message |-> GeminiApiError, text |-> <<>>]
  ELSE IF text = <<>>
  THEN [threw |-> TRUE, message |-> InvalidResponseFormat, text |-> <<>>]
  ELSE [threw |-> FALSE, message |-> Undefined, text |-> text]

\* lines[0].replace(/^<bullet>\s*/, '').trim()
withoutBullet(line) ==
  IF Len(line) >= 1 /\ line[1] = BulletGlyph
  THEN Trim(From(line, RunEnd(line, 2, IsSpace) + 1))
  ELSE Trim(line)

\* The ingredients the user typed: split at the commas, trimmed, in lower
\* case, the empty ones left out.
userIngredients(typed) ==
  Filter(Map(Split(typed, ","), LAMBDA i : ToLowerCase(Trim(i))),
         LAMBDA i : i # <<>>)

\* The names the "Ingredient Substitutions" box shows: of each part of the
\* text between empty lines the first line that is not blank, without its
\* bullet, unless it includes an ingredient the user typed.
substitutionNames(text, typed) ==
  LET lines == Split(text, NL)
      partStart(i) == Greatest({k \in 1..i : k = 1 \/ lines[k - 1] = <<>>})
      isFirst(i) ==
        /\ Trim(lines[i]) # <<>>
        /\ \A j \in partStart(i)..(i - 1) : Trim(lines[j]) = <<>>
      firsts == Filter([i \in 1..Len(lines) |-> i] \o <<>>, isFirst)
      names == Map(firsts, LAMBDA i : withoutBullet(lines[i]))
      typedNames == userIngredients(typed)
  IN  Filter(names, LAMBDA name :
        ~\E k \in 1..Len(typedNames) : Includes(ToLowerCase(name), typedNames[k]))

\* extractAvailable, tabulated for the recipe texts.
availableTable == [text \in RecipeTexts |-> extractAvailable(text)] @@ <<>>
availableOf(text) ==
  IF text \in RecipeTexts THEN availableTable[text]
  ELSE extractAvailable(text)

\* No request for substitutions is in flight.
NoSubstitutionsCall == [pending |-> FALSE, ingredients |-> <<>>]

\* The strings sanitizeText is applied to: every string of up to MaxTextLen
\* characters over markers, white space and a letter.
MaxTextLen == 4
MaxPasses == 2

TextAlphabet == {"*", "#", " ", NL, "a"}

RECURSIVE TextsOfLen(_)
TextsOfLen(n) ==
  IF n = 0 THEN {<<>>}
  ELSE {Append(t, c) : t \in TextsOfLen(n - 1), c \in TextAlphabet}

SanitizeInputs == UNION {TextsOfLen(n) : n \in 0..MaxTextLen}

\* No string is being normalized.
NoSanitizeRun == [text |-> <<>>, passes |-> <<>>, started |-> FALSE]

VARIABLES
  ingredients,        \* Home: the text of the ingredients box
  isLoading,          \* Home: a generation request is in flight
  recipe,             \* Home: the recipe text, <<>> for null
  error,              \* Home: the error message, NULL for none
  warning,            \* the warning returned with the recipe text
  desiredServings,    \* RecipeCard state
  originalServings,   \* RecipeCard state
  parsedRecipe,       \* RecipeCard: the parse of its recipe prop
  scaledIngredients,  \* RecipeCard: the ingredient list on display
  generated,          \* the sections of the text the service answered with
  imageCall,          \* the call of getRecipeImage: its status, prompt, value
  substitutions,      \* Home: the text of the substitutions, <<>> for null
  isLoadingSubstitutions, \* Home: a request for substitutions is in flight
  selectedIngredients,    \* Home: the ingredients ticked for substitution
  availableIngredients,   \* Home: the ingredients that can be ticked
  showSubstitutionPrompt, \* Home: "Do you need to substitute something?"
  showSubstitutionBox,    \* Home: the box of ingredients to tick
  substitutionsCall,  \* the call of getSubstitutionsFromGemini in flight
  generationPending,  \* the call of getRecipeFromGemini has not settled
  imageOutcome,       \* what the image service did for that call
  sanitizeRun         \* a string and the results of sanitizeText applied to
                      \* it once, twice, ...

vars ==
  <<ingredients, isLoading, recipe, error, warning, desiredServings,
    originalServings, parsedRecipe, scaledIngredients, generated,
    substitutions, isLoadingSubstitutions, selectedIngredients,
    availableIngredients, showSubstitutionPrompt, showSubstitutionBox,
    substitutionsCall, generationPending,
    imageCall, imageOutcome, sanitizeRun>>

\* The state of Home and of its RecipeCard.
pageVars ==
  <<ingredients, isLoading, recipe, error, warning, desiredServings,
    originalServings, parsedRecipe, scaledIngredients, generated,
    substitutions, isLoadingSubstitutions, selectedIngredients,
    availableIngredients, showSubstitutionPrompt, showSubstitutionBox,
    substitutionsCall, generationPending>>

\* The state of Home about substitutions.
substitutionVars ==
  <<substitutions, isLoadingSubstitutions, selectedIngredients,
    availableIngredients, showSubstitutionPrompt, showSubstitutionBox,
    substitutionsCall>>

imageVars == <<imageCall, imageOutcome>>

sanitizeVars == <<sanitizeRun>>

cardVars == <<desiredServings, originalServings, parsedRecipe, scaledIngredients>>

\* A render that would scale the list on display again instead of the
\* ingredients of the recipe.
renderCompounding(items, desired, original) ==
  Map(IF scaledIngredients # <<>> THEN scaledIngredients ELSE items,
      LAMBDA l : scaleIngredient(l, scaleFactorOf(desired, original)))

\* scaledIngredients of one render.
renderScaled(items, desired, original) ==
  Map(items, LAMBDA l : scaleIngredient(l, scaleFactorOf(desired, original)))

\* A RecipeCard is on display: {recipe && !isLoading && <RecipeCard .../>}
cardShown == recipe # <<>> /\ ~isLoading

Init ==
  /\ ingredients = <<>>
  /\ isLoading = FALSE
  /\ recipe = <<>>
  /\ error = NULL
  /\ warning = Undefined
  /\ desiredServings = InitialServings
  /\ originalServings = InitialServings
  /\ parsedRecipe = NoRecipe
  /\ scaledIngredients = <<>>
  /\ generated = NoDoc
  /\ substitutions = <<>>
  /\ isLoadingSubstitutions = FALSE
  /\ selectedIngredients = <<>>
  /\ availableIngredients = <<>>
  /\ showSubstitutionPrompt = FALSE
  /\ showSubstitutionBox = FALSE
  /\ substitutionsCall = NoSubstitutionsCall
  /\ generationPending = FALSE
  /\ imageCall = NoImageCall
  /\ imageOutcome = NoOutcome
  /\ sanitizeRun = NoSanitizeRun

\* InputBox onChange: setIngredients(value)
SetIngredients(value) ==
  /\ ingredients' = value
  /\ UNCHANGED <<isLoading, recipe, error, warning, cardVars, generated>>
  /\ UNCHANGED <<substitutionVars, generationPending, imageVars, sanitizeVars>>

\* A handleSubmit that would clear the page before it looks at the
\* ingredients.
HandleSubmitBlankClears ==
  /\ ~isLoading
  /\ Trim(ingredients) = <<>>
  /\ error' = BlankIngredientsError
  /\ recipe' = <<>>
  /\ warning' = Undefined
  /\ desiredServings' = InitialServings
  /\ originalServings' = InitialServings
  /\ parsedRecipe' = NoRecipe
  /\ scaledIngredients' = <<>>
  /\ generated' = NoDoc
  /\ UNCHANGED <<ingredients, isLoading, substitutionVars, generationPending,
                 imageVars, sanitizeVars>>

\* handleSubmit with blank ingredients: the error is set and nothing else.
HandleSubmitBlank ==
  /\ ~isLoading
  /\ Trim(ingredients) = <<>>
  /\ error' = BlankIngredientsError
  /\ UNCHANGED <<ingredients, isLoading, recipe, warning, cardVars, generated>>
  /\ UNCHANGED <<substitutionVars, generationPending, imageVars, sanitizeVars>>

\* A page that would keep the RecipeCard mounted, with its state, while the
\* next recipe is generated.
HandleSubmitCardKept ==
  /\ ~isLoading
  /\ Trim(ingredients) # <<>>
  /\ isLoading' = TRUE
  /\ error' = NULL
  /\ recipe' = <<>>
  /\ warning' = Undefined
  /\ generated' = NoDoc
  /\ generationPending' = TRUE
  /\ UNCHANGED <<ingredients, cardVars, substitutionVars, imageVars, sanitizeVars>>

\* handleSubmit up to the await: the request is sent, the recipe is cleared
\* and with it the RecipeCard is unmounted (its state is discarded; the next
\* card starts from useState(1)).
HandleSubmit ==
  /\ ~isLoading
  /\ Trim(ingredients) # <<>>
  /\ isLoading' = TRUE
  /\ error' = NULL
  /\ recipe' = <<>>
  /\ warning' = Undefined
  /\ desiredServings' = InitialServings
  /\ originalServings' = InitialServings
  /\ parsedRecipe' = NoRecipe
  /\ scaledIngredients' = <<>>
  /\ generated' = NoDoc
  /\ generationPending' = TRUE
  /\ UNCHANGED <<ingredients, substitutionVars, imageVars, sanitizeVars>>

\* A handleSubmit without its finally block: when getRecipeFromGemini
\* throws, the error is set and isLoading stays as it is.
GenerationSettlesNoFinally(ok, text, doc) ==
  /\ isLoading
  /\ generationPending
  /\ LET result == getRecipeFromGemini(ok, text)
     IN  IF result.threw
         THEN /\ error' = result.message
              /\ UNCHANGED <<isLoading, recipe, warning, cardVars, substitutionVars>>
         ELSE /\ recipe' = result.recipe
              /\ warning' = result.warning
              /\ parsedRecipe' = parsedOf(recipe')
              /\ originalServings' =
                   servingsAfterEffect(parsedRecipe', originalServings)
              /\ desiredServings' = originalServings'
              /\ scaledIngredients' =
                   renderScaled(cardIngredients(parsedRecipe', recipe'),
                                desiredServings', originalServings')
              /\ showSubstitutionPrompt' = TRUE
              /\ showSubstitutionBox' = FALSE
              /\ availableIngredients' =
                   IF availableOf(recipe').found
                   THEN availableOf(recipe').items
                   ELSE availableIngredients
              /\ selectedIngredients' =
                   IF availableOf(recipe').found THEN <<>>
                   ELSE selectedIngredients
              /\ isLoading' = FALSE
              /\ UNCHANGED <<error, substitutions, isLoadingSubstitutions,
                             substitutionsCall>>
  /\ generated' = doc
  /\ generationPending' = FALSE
  /\ UNCHANGED <<ingredients, imageVars, sanitizeVars>>

\* The rest of handleSubmit when getRecipeFromGemini settles: on success the
\* recipe is set and a RecipeCard is mounted for it (first render, servings
\* effect, second render), and the effect of Home on a new recipe asks
\* whether something is to be substituted and extracts the ingredients to
\* tick; on a throw the error is set. isLoading ends false.
\* The state the new card starts from is the one HandleSubmit left.
\* The recipe kept is the text of the result; the warning returned with it
\* is recorded beside it (Home reads the text only).
GenerationSettles(ok, text, doc) ==
  /\ isLoading
  /\ LET result == getRecipeFromGemini(ok, text)
     IN  IF result.threw
         THEN /\ error' = result.message
              /\ UNCHANGED <<recipe, warning, cardVars, substitutionVars>>
         ELSE /\ recipe' = result.recipe
              /\ warning' = result.warning
              /\ parsedRecipe' = parsedOf(recipe')
              /\ originalServings' =
                   servingsAfterEffect(parsedRecipe', originalServings)
              /\ desiredServings' = originalServings'
              /\ scaledIngredients' =
                   renderScaled(cardIngredients(parsedRecipe', recipe'),
                                desiredServings', originalServings')
              /\ showSubstitutionPrompt' = TRUE
              /\ showSubstitutionBox' = FALSE
              /\ availableIngredients' =
                   IF availableOf(recipe').found
                   THEN availableOf(recipe').items
                   ELSE availableIngredients
              /\ selectedIngredients' =
                   IF availableOf(recipe').found THEN <<>>
                   ELSE selectedIngredients
              /\ UNCHANGED <<error, substitutions, isLoadingSubstitutions,
                             substitutionsCall>>
  /\ generated' = doc
  /\ isLoading' = FALSE
  /\ generationPending' = FALSE
  /\ UNCHANGED <<ingredients, imageVars, sanitizeVars>>

\* The "Adjust servings" input changes: desiredServings is set and the card
\* renders again from its recipe prop.
SetDesiredServings(value) ==
  /\ cardShown
  /\ desiredServings' = desiredFromInput(value)
  /\ parsedRecipe' = parsedOf(recipe)
  /\ scaledIngredients' =
       renderScaled(cardIngredients(parsedRecipe', recipe),
                    desiredServings', originalServings)
  /\ UNCHANGED <<ingredients, isLoading, recipe, error, warning,
                 originalServings, generated, substitutionVars,
                 generationPending, imageVars, sanitizeVars>>

\* The sessions Spec follows: a text without an ingredients section is
\* generated while the page lists no ingredients to substitute. (HomeSpec
\* follows sessions in which such a text comes after a recipe with
\* ingredients.)
inSession(doc) == doc.ingredients # Absent \/ availableIngredients = <<>>

Next ==
  \/ \E value \in TypedIngredients : SetIngredients(value)
  \/ HandleSubmitBlank
  \/ HandleSubmit
  \/ \E doc \in Docs : inSession(doc) /\ GenerationSettles(TRUE, TextOf(doc), doc)
  \/ GenerationSettles(TRUE, <<>>, NoDoc)
  \/ GenerationSettles(FALSE, <<>>, NoDoc)
  \/ \E value \in ServingsInputs : SetDesiredServings(value)

Spec == Init /\ [][Next]_vars

(***************************************************************************)
(* What the recipe card shows                                              *)
(***************************************************************************)

\* The ingredients of the card on display, before scaling.
shownIngredients == cardIngredients(parsedRecipe, recipe)

\* nutritionFacts['Calories'] and nutritionFacts['Protein'] of the card.
shownCaloriesFact == caloriesFact(parsedRecipe.nutrition, shownIngredients)
shownProteinFact == parsedFact(parsedRecipe.nutrition, Chars("Protein"))

\* The lines of a section of the generated text after its header.
linesOf(section) == IF section = Absent THEN <<>> ELSE Tail(section)

\* The generated text ends with its last section: no line about the total
\* time, the servings or the serving size follows.
noTrailingLines(doc) ==
  doc.time = Absent /\ doc.serves = Absent /\ doc.servingSize = Absent

(***************************************************************************)
(* C1: ingredient extraction                                               *)
(***************************************************************************)

\* The cleanup the claim describes: one leading bullet marker (-, *, bullet
\* glyph) or one leading ordinal "N." is removed, then the line is trimmed.
withoutBulletOrOrdinal(line) ==
  LET e == RunEnd(line, 1, IsDigit)
  IN  IF line # <<>> /\ line[1] \in {"-", "*", BulletGlyph}
      THEN Trim(From(line, 2))
      ELSE IF e >= 1 /\ e < Len(line) /\ line[e + 1] = "."
              /\ (e + 1 = Len(line) \/ IsSpace(line[e + 2]))
      THEN Trim(From(line, e + 2))
      ELSE Trim(line)

\* C1: for a text with an ingredients header followed later by an
\* instructions header, the parsed ingredients are exactly the lines between
\* the two headers, in order, each with only a single leading bullet marker
\* or a leading ordinal removed and then trimmed; a leading quantity is kept.
C1_IngredientsKeepTheirQuantity ==
  (cardShown /\ generated.ingredients # Absent /\ generated.instructions # Absent)
    => parsedRecipe.ingredients
         = Map(linesOf(generated.ingredients), withoutBulletOrOrdinal)

(***************************************************************************)
(* C2: section intervals                                                   *)
(***************************************************************************)

\* The cleanup of the lines of a list section, as parseRecipeString does it.
cleanedList(section, clean(_)) ==
  Filter(Map(linesOf(section), clean), LAMBDA l : Len(l) > 0)

\* C2: every section that is found holds the lines from just after its own
\* header up to the header of the next section that was found, or up to the
\* end of the text when no later section was found: a missing next section
\* neither empties a found section nor lets it run past the next header.
C2_SectionsAreHalfOpenIntervals ==
  (cardShown /\ noTrailingLines(generated)) =>
    /\ generated.ingredients # Absent =>
         parsedRecipe.ingredients
           = Filter(cleanedList(generated.ingredients, stripBulletsAndNumbers),
                    LAMBDA l : ~IsSectionHeading(l))
    /\ generated.instructions # Absent =>
         parsedRecipe.instructions
           = cleanedList(generated.instructions, stripOrdinal)
    /\ generated.substitutions # Absent =>
         parsedRecipe.substitutions
           = cleanedList(generated.substitutions, stripBulletsAndNumbers)
    /\ generated.tips # Absent =>
         parsedRecipe.tips = cleanedList(generated.tips, stripBulletsAndNumbers)
    /\ generated.nutrition # Absent =>
         parsedRecipe.nutrition = Join(linesOf(generated.nutrition), NL)

(***************************************************************************)
(* C3: each numeric token is scaled once                                   *)
(***************************************************************************)

\* The end of the numeric token that starts at position i of s: a fraction
\* a/b, else a decimal, else an integer.
numericTokenEnd(s, i) ==
  IF tokenEnd(s, i, "fraction") > 0 THEN tokenEnd(s, i, "fraction")
  ELSE IF tokenEnd(s, i, "decimal") > 0 THEN tokenEnd(s, i, "decimal")
  ELSE tokenEnd(s, i, "integer")

\* Every numeric token of the line replaced by its value times the factor,
\* in one pass over the line: the text written for a token is not read again.
RECURSIVE scaledOnce(_, _)
scaledOnce(s, scaleFactor) ==
  LET at == {i \in 1..Len(s) : IsDigit(s[i])}
  IN  IF at = {} THEN s
      ELSE LET i == Least(at)
               e == numericTokenEnd(s, i)
           IN  SubSeq(s, 1, i - 1)
                 \o scaleToken(SubSeq(s, i, e), scaleFactor)
                 \o scaledOnce(From(s, e + 1), scaleFactor)

\* C3: scaleIngredient replaces every numeric token of the line by its value
\* times the factor, each token exactly once: what the fraction pass wrote is
\* not multiplied again by the decimal or the integer pass.
C3_EachTokenScaledOnce ==
  cardShown =>
    scaledIngredients
      = Map(shownIngredients,
            LAMBDA l : scaledOnce(l, Rat(desiredServings, originalServings)))

(***************************************************************************)
(* C4: scaling starts from the parsed ingredients at every change          *)
(***************************************************************************)

\* C4: after any sequence of changes of the desired servings, the list on
\* display is scaleIngredient applied to each ingredient parsed from the
\* recipe text, with the factor desiredServings / originalServings of now;
\* the recipe text and its parse are what they were when the card appeared.
C4_ScaledFromParsedIngredients ==
  cardShown =>
    /\ recipe = TextOf(generated)
    /\ parsedRecipe = parseTable[TextOf(generated)]
    /\ scaledIngredients
         = Map(cardIngredients(parseTable[TextOf(generated)], TextOf(generated)),
               LAMBDA l : scaleIngredient(l, Rat(desiredServings, originalServings)))

\* A card whose desired servings were changed away from the original ones and
\* whose list on display differs from the parsed ingredients.
C4_Witness ==
  /\ cardShown
  /\ desiredServings > originalServings
  /\ originalServings > 1
  /\ scaledIngredients # <<>>
  /\ scaledIngredients # shownIngredients

(***************************************************************************)
(* C5: a whole recipe, end to end                                          *)
(***************************************************************************)

\* A title, ingredients, instructions, plain nutrition facts and a serves
\* line; no substitutions, tips, total-time or serving-size line.
isPlainRecipe(doc) ==
  /\ doc.ingredients # Absent
  /\ doc.instructions # Absent
  /\ doc.substitutions = Absent
  /\ doc.tips = Absent
  /\ doc.nutrition = NutritionPlain
  /\ doc.time = Absent
  /\ doc.serves = ServesPlain
  /\ doc.servingSize = Absent

\* C5: a text made of a title, k ingredient lines, m instruction lines, a
\* nutrition section "Calories: 400", "Protein: 10g" and "Serves: 2" parses
\* to that title, k ingredients, the m instructions in order and nothing
\* else among them, Calories "400", Protein "10g", no warning, and the
\* serving size "1 of 2 portions (estimated)".
C5_PlainRecipeEndToEnd ==
  (cardShown /\ isPlainRecipe(generated)) =>
    /\ parsedRecipe.title = generated.title
    /\ Len(parsedRecipe.ingredients) = Len(linesOf(generated.ingredients))
    /\ parsedRecipe.instructions
         = cleanedList(generated.instructions, stripOrdinal)
    /\ shownCaloriesFact = Chars("400")
    /\ shownProteinFact = Chars("10g")
    /\ warning = Undefined
    /\ displayServingSizeOf(parsedRecipe) = Chars("1 of 2 portions (estimated)")

(***************************************************************************)
(* C6: the derived total time                                              *)
(***************************************************************************)

\* The total time by the precedence of the claim: prep plus cook when both
\* are there and the sum is positive; in every other case the stated
\* total-time field when it is not empty and not "required:"; else unknown.
totalTimeByPrecedence(parsed) ==
  LET prepTime == prepTimeOf(parsed)
      cookTime == cookTimeOf(parsed)
      sum == parseTimeToMinutes(prepTime) + parseTimeToMinutes(cookTime)
  IN  IF prepTime # <<>> /\ cookTime # <<>> /\ sum > 0
      THEN formatTimeFromMinutes(sum)
      ELSE IF /\ Trim(parsed.totalTime) # <<>>
              /\ ToLowerCase(parsed.totalTime) # Chars("required:")
      THEN stripMarkdown(parsed.totalTime)
      ELSE <<>>

\* C6: the total time the card derives follows that precedence, also when
\* prep and cook are both present and sum to zero.
C6_TotalTimePrecedence ==
  cardShown => totalTimeOf(parsedRecipe) = totalTimeByPrecedence(parsedRecipe)

(***************************************************************************)
(* C7: the serving size                                                    *)
(***************************************************************************)

\* The serving size by the precedence of the claim.
servingSizeByPrecedence(parsed) ==
  IF /\ parsed.servingSize # <<>>
     /\ ~Includes(parsed.servingSize, Chars("("))
     /\ ~TestCI(parsed.servingSize, Chars("note"))
  THEN (IF perServingMatch(parsed.servingSize) # <<>>
        THEN parsed.servingSize
        ELSE Chars("1 ") \o dropArticleAndPeriod(parsed.servingSize)
               \o Chars(" per serving"))
  ELSE IF parsed.servings # <<>>
  THEN Chars("1 of ") \o parsed.servings \o Chars(" portions (estimated)")
  ELSE ServingSizeNotSpecified

\* C7: the string chosen by that precedence is the one the card renders as
\* the serving size of the recipe.
C7_RenderedServingSize ==
  cardShown =>
    formattedServingSizeOf(parsedRecipe) = servingSizeByPrecedence(parsedRecipe)

(***************************************************************************)
(* C8: the calorie estimate                                                *)
(***************************************************************************)

\* The leading numeric quantity of an ingredient, 1 when it has none.
leadingQuantity(ingredient) ==
  IF ingredient = <<>> \/ ~IsDigit(ingredient[1]) THEN Rat(1, 1)
  ELSE parseNumber(SubSeq(ingredient, 1, numericTokenEnd(ingredient, 1)))

\* The grams of an ingredient: the digits before the first "g" that follows
\* digits; <<>> when there are none.
gramsOf(ingredient) ==
  LET at == {i \in 2..Len(ingredient) :
               ingredient[i] = "g" /\ IsDigit(ingredient[i - 1])}
  IN  IF at = {} THEN <<>>
      ELSE SubSeq(ingredient, RunStart(ingredient, Least(at) - 1, IsDigit),
                  Least(at) - 1)

\* What one ingredient adds to the estimate by the claim.
estimateOf(ingredient) ==
  LET hits == {k \in 1..Len(calorieLookup) :
                 Includes(ToLowerCase(ingredient), calorieLookup[k][1])}
      k == Least(hits)
      quantity == IF calorieLookup[k][1] = Chars("goat cheese")
                     /\ gramsOf(ingredient) # <<>>
                  THEN Rat(DigitsToNat(gramsOf(ingredient)), 30)
                  ELSE leadingQuantity(ingredient)
  IN  IF hits = {} THEN Rat(0, 1)
      ELSE Times(Rat(calorieLookup[k][2], 1), quantity)

RECURSIVE estimateSum(_)
estimateSum(list) ==
  IF list = <<>> THEN Rat(0, 1)
  ELSE Plus(estimateOf(list[1]), estimateSum(Tail(list)))

\* A number as text: an integer by its digits, else with one decimal.
numberText(x) ==
  IF NumberIsInteger(x) THEN NatToChars(x.n \div x.d) ELSE toFixed1(x)

\* C8: when no Calories fact was parsed, the estimate is the sum over the
\* ingredients of the calories of the first table entry named in the
\* ingredient times its leading quantity (for goat cheese its grams over 30);
\* a positive sum S is reported as "~S (estimated)", a zero sum leaves
\* Calories unknown.
C8_CalorieEstimate ==
  (cardShown /\ parsedFact(parsedRecipe.nutrition, Chars("Calories")) = <<>>) =>
    LET S == estimateSum(shownIngredients)
    IN  shownCaloriesFact
          = IF S.n > 0
            THEN Chars("~") \o numberText(S) \o Chars(" (estimated)")
            ELSE <<>>

(***************************************************************************)
(* C9: the warning and the facts on display                                *)
(***************************************************************************)

\* C9: a warning accompanies the recipe exactly when Calories or Protein is
\* unknown on the card after the nutrition parse and the calorie estimate.
C9_WarningAgreesWithCard ==
  cardShown =>
    (warning # Undefined <=> (shownCaloriesFact = <<>> \/ shownProteinFact = <<>>))

(***************************************************************************)
(* C10: the warning of getRecipeFromGemini                                 *)
(***************************************************************************)

\* The line holds an entry "<label>: <number>": after the white space is
\* taken out, the label, a colon, at most one of ~ and the approximately
\* sign, at most one "approximately" and then a digit.
lineHasEntry(line, label) ==
  LET t == ToLowerCase(RemoveAll(line, IsSpace))
      afterSign(i) == IF i <= Len(t) /\ t[i] \in {"~", ApproxGlyph}
                      THEN i + 1 ELSE i
      afterWord(i) == IF MatchAt(t, i, ToLowerCase(ApproximatelyWord))
                      THEN i + Len(ApproximatelyWord) ELSE i
  IN  \E i \in 1..Len(t) :
        /\ MatchAt(t, i, ToLowerCase(label) \o <<":">>)
        /\ LET d == afterWord(afterSign(i + Len(label) + 1))
           IN  d <= Len(t) /\ IsDigit(t[d])

\* Some line of the generated recipe holds an entry for the label.
docHasEntry(doc, label) ==
  \E k \in 1..Len(sectionsOf(doc)) :
    \E n \in 1..Len(sectionsOf(doc)[k]) :
      lineHasEntry(sectionsOf(doc)[k][n], label)

\* C10: whenever the service answered with a recipe text, the text is
\* returned unchanged, with the warning exactly when the text has no entry
\* "Calories: <number>" or no entry "Protein: <number>"; the call does not
\* throw for it and the recipe is not rejected.
C10_WarningIffEntryMissing ==
  (generated # NoDoc /\ ~isLoading) =>
    /\ recipe = TextOf(generated)
    /\ error \notin {GeminiApiError, InvalidResponseFormat}
    /\ warning = IF docHasEntry(generated, CaloriesLabel)
                    /\ docHasEntry(generated, ProteinLabel)
                 THEN Undefined
                 ELSE IncompleteNutritionWarning

\* A recipe on display that came with the warning although its nutrition
\* section has a line about protein.
C10_Witness ==
  /\ cardShown
  /\ warning = IncompleteNutritionWarning
  /\ generated.nutrition = NutritionNoCalories

(***************************************************************************)
(* The recipe card for texts of any shape                                  *)
(***************************************************************************)

\* A recipe card for any of these texts: the page as in Spec, the service
\* answering with a text of EdgeTexts.
CardNext ==
  \/ SetIngredients(Chars("rice"))
  \/ HandleSubmit
  \/ \E text \in EdgeTexts : GenerationSettles(TRUE, text, NoDoc)
  \/ \E value \in ServingsInputs : SetDesiredServings(value)

CardSpec == Init /\ [][CardNext]_vars

(***************************************************************************)
(* C11: no text makes the card throw                                       *)
(*                                                                         *)
(* Nothing in RecipeCard.tsx catches an exception. What can throw in it is *)
(* the read of a property of null or undefined: of the result of           *)
(* String.match when nothing matched, and of lines[index] when the index   *)
(* is -1. A match result and a line are never empty, so <<>> stands for    *)
(* null and for undefined.                                                 *)
(***************************************************************************)

\* The test left out: the read is made whatever the value.
testLeftOut(value) == TRUE

\* "if (match)", "match ? ... : ...", "match?.[1]": the read behind the test
\* is made for a value that is not null.
truthy(value) == value # <<>>

\* timeStr.match(/(\d+)\s*h/i) and timeStr.match(/(\d+)\s*m/i): the digits of
\* the first match, <<>> for null.
timeMatch(timeStr, unit) ==
  LET ends(i) == RunEnd(timeStr, i, IsDigit)
      hit(i) == /\ ends(i) >= i
                /\ LET j == RunEnd(timeStr, ends(i) + 1, IsSpace) + 1
                   IN  j <= Len(timeStr) /\ LowerChar(timeStr[j]) = unit
      at == {i \in 1..Len(timeStr) : hit(i)}
  IN  IF at = {} THEN <<>>
      ELSE SubSeq(timeStr, Least(at), ends(Least(at)))

\* The reads of a value that may be null or undefined during one render of
\* the card and its servings effect: where the read is, whether the code
\* reaches it, and the value read from.
nullableReads(parsed, text) ==
  LET lines == recipeLines(text)
      ix == sectionIndices(lines)
      lineAt(index) == IF index = -1 THEN <<>> ELSE lines[index + 1]
      items == cardIngredients(parsed, text)
      facts == {parsedFact(parsed.nutrition, Chars(label)) :
                  label \in {"Protein", "Carbs", "Fat"}}
                 \cup {caloriesFact(parsed.nutrition, items)}
      numbered == {str \in facts \cup {parsed.servings, parsed.servingSize} :
                     str # <<>>}
      times == {t \in {prepTimeOf(parsed), cookTimeOf(parsed)} : t # <<>>}
      estimated == {items[k] : k \in {k \in 1..Len(items) :
                      /\ parsedFact(parsed.nutrition, Chars("Calories")) = <<>>
                      /\ \E n \in 1..Len(calorieLookup) :
                           Includes(ToLowerCase(items[k]), calorieLookup[n][1])}}
  IN  { [ site |-> "lines[servesIndex]", reached |-> ix.serves # -1,
          value |-> lineAt(ix.serves) ],
        [ site |-> "lines[servingSizeIndex]", reached |-> ix.servingSize # -1,
          value |-> lineAt(ix.servingSize) ],
        [ site |-> "lines[timeIndex]", reached |-> ix.time # -1,
          value |-> lineAt(ix.time) ],
        [ site |-> "effect match[0]",
          reached |-> parsed.servings # <<>>
                        /\ truthy(firstDigits(parsed.servings)),
          value |-> firstDigits(parsed.servings) ],
        [ site |-> "displayServingSize match[0]",
          reached |-> /\ parsed.servingSize # <<>>
                      /\ ~Includes(stripMarkdown(parsed.servingSize), Chars("("))
                      /\ ~TestCI(stripMarkdown(parsed.servingSize), Chars("note"))
                      /\ truthy(perServingMatch(parsed.servingSize)),
          value |-> perServingMatch(parsed.servingSize) ] }
      \cup { [ site |-> "extractNumber match.join",
               reached |-> truthy(firstDigits(str)),
               value |-> firstDigits(str) ] : str \in numbered }
      \cup { [ site |-> "parseTimeToMinutes match[1]",
               reached |-> truthy(timeMatch(tu[1], tu[2])),
               value |-> timeMatch(tu[1], tu[2]) ] :
               tu \in times \X {"h", "m"} }
      \cup { [ site |-> "estimate numMatch[0]",
               reached |-> firstDigits(item) # <<>> /\ truthy(firstDigits(item)),
               value |-> firstDigits(item) ] : item \in estimated }

\* A render throws when it reaches the read of a property of null.
renderThrows(parsed, text) ==
  \E read \in nullableReads(parsed, text) : read.reached /\ read.value = <<>>

hasDigit(str) == \E i \in 1..Len(str) : IsDigit(str[i])

\* C11: whatever the text (empty, a title alone, sections missing, repeated
\* or out of order) and whatever the desired servings, the parse, the
\* nutrition sub-parse, the derived fields and the scaling end with a result
\* and without an exception: no render reads a property of null, the parse
\* has a title, every ingredient has its scaled line, an ingredient without a
\* number stays as it is, and a time without a number counts as zero minutes.
C11_NoTextMakesTheCardThrow ==
  /\ ~renderThrows(parsedRecipe, recipe)
  /\ parsedRecipe.title # <<>>
  /\ Len(scaledIngredients) = Len(shownIngredients)
  /\ \A k \in 1..Len(shownIngredients) :
       ~hasDigit(shownIngredients[k]) => scaledIngredients[k] = shownIngredients[k]
  /\ \A t \in {prepTimeOf(parsedRecipe), cookTimeOf(parsedRecipe)} :
       ~hasDigit(t) => getMinutes(t) = <<EmDash>>

\* A card for a text whose sections are out of order, with servings that
\* hold no number, a cook time without a number, an ingredient without a
\* number, and the desired servings changed.
C11_Witness ==
  /\ cardShown
  /\ sectionIndices(recipeLines(recipe)).nutrition
       < sectionIndices(recipeLines(recipe)).ingredients
  /\ parsedRecipe.servings # <<>>
  /\ firstDigits(parsedRecipe.servings) = <<>>
  /\ cookTimeOf(parsedRecipe) # <<>>
  /\ ~hasDigit(cookTimeOf(parsedRecipe))
  /\ desiredServings = 3
  /\ \E k \in 1..Len(shownIngredients) : ~hasDigit(shownIngredients[k])

(***************************************************************************)
(* C12: a section that was not found and a section found empty             *)
(***************************************************************************)

\* A title and an ingredients section, and the same with a tips header that
\* has no line under it.
TitleAndIngredients == EdgeText(TitleLine, <<IngredientsBlock>>)
TitleIngredientsEmptyTips ==
  EdgeText(TitleLine, <<IngredientsBlock, EmptyTipsBlock>>)

\* C12: for a text of a title and an ingredients section the instructions
\* are the empty sequence while the tips, the substitutions and the
\* nutrition, which were not found, are not the empty list or the empty
\* string: the tips differ from those of the text whose tips header has no
\* line under it, which are present and empty.
C12_NotFoundIsNotEmpty ==
  (cardShown /\ recipe = TitleAndIngredients) =>
    /\ parsedRecipe.instructions = <<>>
    /\ parseRecipeString(TitleIngredientsEmptyTips).tips = <<>>
    /\ parsedRecipe.tips # parseRecipeString(TitleIngredientsEmptyTips).tips
    /\ parsedRecipe.tips # <<>>
    /\ parsedRecipe.substitutions # <<>>
    /\ parsedRecipe.nutrition # <<>>

(***************************************************************************)
(* C13: the factor comes from the recipe on display alone                  *)
(***************************************************************************)

\* The serving count the generated recipe states: the first number of its
\* serves line, 1 when it has no serves line or the line has no number.
statedServings(doc) ==
  IF doc.serves = Absent \/ ~hasDigit(doc.serves[1]) THEN 1
  ELSE DigitsToNat(firstDigits(doc.serves[1]))

\* C13: after any sequence of recipes and changes of the desired servings,
\* the ingredients on display are those of the recipe shown, scaled by the
\* desired servings over the serving count that recipe states itself, over 1
\* when it states none; the count of a recipe shown before plays no part.
C13_FactorFromTheRecipeShown ==
  cardShown =>
    /\ originalServings = statedServings(generated)
    /\ scaledIngredients
         = Map(shownIngredients,
               LAMBDA l : scaleIngredient(l, Rat(desiredServings,
                                                 statedServings(generated))))

\* A recipe without a serves line on display with the desired servings
\* changed to 3: recipes that state 2 and 4 servings were shown before it in
\* some of the behaviours that lead here.
C13_Witness ==
  /\ cardShown
  /\ generated.serves = Absent
  /\ generated.ingredients # Absent
  /\ desiredServings = 3
  /\ originalServings = 1

(***************************************************************************)
(* C14: scaling by f and then by 1/f                                       *)
(***************************************************************************)

\* The factors of the round trip.
RoundTripFactors ==
  {Rat(1, 4), Rat(1, 3), Rat(1, 2), Rat(2, 1), Rat(3, 1), Rat(4, 1)}

\* The quantities of a line: the values of its numeric tokens, in order.
RECURSIVE quantitiesOf(_)
quantitiesOf(line) ==
  LET at == {i \in 1..Len(line) : IsDigit(line[i])}
  IN  IF at = {} THEN <<>>
      ELSE LET i == Least(at)
               e == numericTokenEnd(line, i)
           IN  <<parseNumber(SubSeq(line, i, e))>>
                 \o quantitiesOf(From(line, e + 1))

\* |x - y| <= 0.05 for finite numbers.
within5Hundredths(x, y) ==
  LET diff == x.n * y.d - y.n * x.d
  IN  /\ IsFinite(x) /\ IsFinite(y)
      /\ 20 * (IF diff < 0 THEN 0 - diff ELSE diff) <= x.d * y.d

\* The quantities of two lines agree one by one within 0.05.
sameQuantities(a, b) ==
  /\ Len(quantitiesOf(a)) = Len(quantitiesOf(b))
  /\ \A k \in 1..Len(quantitiesOf(a)) :
       within5Hundredths(quantitiesOf(a)[k], quantitiesOf(b)[k])

\* C14: when the ingredients on display were scaled by a factor f among 1/4,
\* 1/3, 1/2, 2, 3 and 4, scaling each line on display by 1/f gives back the
\* quantities of the ingredient it came from, each within 0.05.
C14_ScalingRoundTrip ==
  (cardShown /\ \E f \in RoundTripFactors :
                  NumEq(f, Rat(desiredServings, originalServings))) =>
    \A k \in 1..Len(shownIngredients) :
      sameQuantities(scaleIngredient(scaledIngredients[k],
                                     Rat(originalServings, desiredServings)),
                     shownIngredients[k])

(***************************************************************************)
(* C15: scaling by 1                                                       *)
(***************************************************************************)

\* The fractions scaleIngredient renders.
CommonFractionTexts ==
  {Chars("1/4"), Chars("1/3"), Chars("1/2"), Chars("2/3"), Chars("3/4")}

\* A numeric token in canonical form: a bare integer, a decimal with one
\* decimal digit that is not 0, or one of the common fractions.
canonicalToken(token) ==
  \/ \A i \in 1..Len(token) : IsDigit(token[i])
  \/ /\ tokenEnd(token, 1, "decimal") = Len(token)
     /\ token[Len(token) - 1] = "."
     /\ token[Len(token)] # "0"
  \/ token \in CommonFractionTexts

\* Every numeric token of the line is in canonical form.
RECURSIVE canonicalLine(_)
canonicalLine(line) ==
  LET at == {i \in 1..Len(line) : IsDigit(line[i])}
  IN  \/ at = {}
      \/ LET i == Least(at)
             e == numericTokenEnd(line, i)
         IN  /\ canonicalToken(SubSeq(line, i, e))
             /\ canonicalLine(From(line, e + 1))

\* C15: with the desired servings equal to the original ones, that is a
\* factor of 1, every ingredient whose numeric tokens are canonical (bare
\* integers, one-decimal decimals, the fractions 1/4, 1/3, 1/2, 2/3, 3/4) is
\* displayed as it is.
C15_ScalingByOneIsIdentity ==
  (cardShown /\ desiredServings = originalServings /\ originalServings > 0) =>
    \A k \in 1..Len(shownIngredients) :
      canonicalLine(shownIngredients[k])
        => scaledIngredients[k] = shownIngredients[k]

(***************************************************************************)
(* C16: how a scaled quantity is rendered                                  *)
(***************************************************************************)

\* The common fractions with their values.
CommonFractionValues ==
  << <<Rat(1, 4), Chars("1/4")>>, <<Rat(1, 3), Chars("1/3")>>,
     <<Rat(1, 2), Chars("1/2")>>, <<Rat(2, 3), Chars("2/3")>>,
     <<Rat(3, 4), Chars("3/4")>> >>

\* The rendering of a quantity by the rule: an integer by its digits, a
\* common fraction by its text, anything else with one decimal.
renderedQuantity(x) ==
  LET hits == {k \in 1..Len(CommonFractionValues) :
                 NumEq(CommonFractionValues[k][1], x)}
  IN  IF NumberIsInteger(x) THEN NatToChars(x.n \div x.d)
      ELSE IF hits # {} THEN CommonFractionValues[Least(hits)][2]
      ELSE toFixed1(x)

\* The line with every run of digits replaced by the rendering of its value
\* times the factor.
RECURSIVE integersRendered(_, _)
integersRendered(line, scaleFactor) ==
  LET at == {i \in 1..Len(line) : IsDigit(line[i])}
  IN  IF at = {} THEN line
      ELSE LET i == Least(at)
               e == RunEnd(line, i, IsDigit)
           IN  SubSeq(line, 1, i - 1)
                 \o renderedQuantity(
                      Times(Rat(DigitsToNat(SubSeq(line, i, e)), 1), scaleFactor))
                 \o integersRendered(From(line, e + 1), scaleFactor)

\* The numeric tokens of the line are bare integers: no fraction, no decimal.
integersOnly(line) ==
  \A i \in 1..Len(line) :
    tokenEnd(line, i, "fraction") = 0 /\ tokenEnd(line, i, "decimal") = 0

\* C16: an ingredient whose quantities are bare integers is displayed with
\* each quantity times the factor rendered as a bare integer when it is
\* integral, as 1/4, 1/3, 1/2, 2/3 or 3/4 when it equals one of them (1/3 and
\* 2/3 as they come from 1 * (1/3) and 2 * (1/3) included), and with one
\* decimal otherwise.
C16_RenderingOfScaledQuantities ==
  (cardShown /\ originalServings > 0) =>
    \A k \in 1..Len(shownIngredients) :
      integersOnly(shownIngredients[k])
        => scaledIngredients[k]
             = integersRendered(shownIngredients[k],
                                Rat(desiredServings, originalServings))

(***************************************************************************)
(* C17: the total of prep and cook time                                    *)
(***************************************************************************)

\* The string has the shape "<N>h <M>m", "<N>h" or "<M>m".
timeShape(str) ==
  LET e == RunEnd(str, 1, IsDigit)
      f == RunEnd(str, e + 3, IsDigit)
  IN  IF e < 1 \/ e >= Len(str) THEN "none"
      ELSE IF str[e + 1] = "m" /\ Len(str) = e + 1 THEN "m"
      ELSE IF str[e + 1] = "h" /\ Len(str) = e + 1 THEN "h"
      ELSE IF /\ str[e + 1] = "h" /\ Len(str) >= e + 4 /\ str[e + 2] = " "
              /\ f >= e + 3 /\ f + 1 = Len(str) /\ str[f + 1] = "m"
      THEN "hm"
      ELSE "none"

\* 60 times the hours plus the minutes of a string of that shape.
minutesOfShape(str) ==
  LET e == RunEnd(str, 1, IsDigit)
      first == DigitsToNat(SubSeq(str, 1, e))
  IN  IF timeShape(str) = "m" THEN first
      ELSE IF timeShape(str) = "h" THEN 60 * first
      ELSE 60 * first + DigitsToNat(SubSeq(str, e + 3, Len(str) - 1))

\* C17: when the prep time and the cook time of the card both have the shape
\* "<N>h <M>m" (either group may be missing) and T, 60 times their hours plus
\* their minutes, is positive, the total time on display is "<T> minutes":
\* "30 minutes" for 10m and 20m, "70 minutes" for 1h 10m and 0m.
C17_TotalOfPrepAndCook ==
  LET prepTime == prepTimeOf(parsedRecipe)
      cookTime == cookTimeOf(parsedRecipe)
  IN  (/\ cardShown
       /\ timeShape(prepTime) # "none"
       /\ timeShape(cookTime) # "none"
       /\ minutesOfShape(prepTime) + minutesOfShape(cookTime) > 0) =>
        formattedTotalTimeOf(parsedRecipe)
          = NatToChars(minutesOfShape(prepTime) + minutesOfShape(cookTime))
              \o Chars(" minutes")

\* The card of a recipe with prep time 1h 10m and cook time 0m shows
\* "70 minutes".
C17_Witness ==
  /\ cardShown
  /\ generated.nutrition = NutritionHourTen
  /\ prepTimeOf(parsedRecipe) = Chars("1h 10m")
  /\ cookTimeOf(parsedRecipe) = Chars("0m")
  /\ formattedTotalTimeOf(parsedRecipe) = Chars("70 minutes")

(***************************************************************************)
(* C18: the placeholder of the total time                                  *)
(***************************************************************************)

\* C18: the total time on display is the placeholder only when the derived
\* total time is unknown; when prep and cook time are not both there and the
\* text states the total time "45 minutes", the card shows "45 minutes".
C18_PlaceholderOnlyWhenUnknown ==
  cardShown =>
    /\ formattedTotalTimeOf(parsedRecipe) = <<EmDash>>
         => totalTimeOf(parsedRecipe) = <<>>
    /\ (/\ prepTimeOf(parsedRecipe) = <<>> \/ cookTimeOf(parsedRecipe) = <<>>
        /\ parsedRecipe.totalTime = Chars("45 minutes"))
         => formattedTotalTimeOf(parsedRecipe) = Chars("45 minutes")

(***************************************************************************)
(* C19: the title                                                          *)
(***************************************************************************)

\* The title of a text by the rule: the line after the title marker when the
\* text has one, else the first line that is not empty, else the default.
titleByRule(text) ==
  LET lines == Filter(Map(Split(text, NL), Trim), LAMBDA l : l # <<>>)
      marked == {k \in 1..(Len(lines) - 1) : MatchAt(lines[k], 1, TitleMarker)}
  IN  IF marked # {} THEN lines[Least(marked) + 1]
      ELSE IF Len(lines) > 0 THEN lines[1]
      ELSE UntitledRecipe

\* C19: the title of the parsed recipe is the first non-empty line of the
\* text, the line that follows the title marker when the text has such a
\* line, and "Untitled Recipe" when the text has no non-empty line.
C19_TitleOfTheRecipe ==
  parsedRecipe.title = titleByRule(recipe)

(***************************************************************************)
(* C20: getRecipeImage                                                     *)
(*                                                                         *)
(* Nothing of the page calls getRecipeImage; ImageSpec has a caller that   *)
(* asks for the image of a title while the page works on a recipe.         *)
(***************************************************************************)

ImagePrompts == {TitleLine, UntitledRecipe}

\* getRecipeImage(prompt) up to "await replicate.run(...)".
CallGetRecipeImage(prompt) ==
  /\ imageCall.status # "pending"
  /\ imageCall' = [status |-> "pending", prompt |-> prompt, value |-> NULL]
  /\ imageOutcome' = NoOutcome
  /\ UNCHANGED <<pageVars, sanitizeVars>>

\* replicate.run settles and getRecipeImage returns.
ImageServiceSettles(outcome) ==
  /\ imageCall.status = "pending"
  /\ imageCall' = getRecipeImage(imageCall.prompt, outcome)
  /\ imageOutcome' = outcome
  /\ UNCHANGED <<pageVars, sanitizeVars>>

\* The recipes of the page while images are asked for.
ImageDocs ==
  {Doc(<<IngredientsHeader>> \o SubSeq(IngredientPool, 1, 2),
       <<InstructionsHeader>> \o SubSeq(InstructionPool, 1, 1),
       Absent, Absent, NutritionPlain, Absent, srv, Absent) :
     srv \in {Absent, ServesPlain}}

ImageNext ==
  \/ SetIngredients(Chars("rice"))
  \/ HandleSubmit
  \/ \E doc \in ImageDocs : GenerationSettles(TRUE, TextOf(doc), doc)
  \/ GenerationSettles(FALSE, <<>>, NoDoc)
  \/ \E value \in ServingsInputs : SetDesiredServings(value)
  \/ \E prompt \in ImagePrompts : CallGetRecipeImage(prompt)
  \/ \E outcome \in ServiceOutcomes : ImageServiceSettles(outcome)

ImageSpec == Init /\ [][ImageNext]_vars

\* The value the call is to return for what the service did.
firstElementOrNull(outcome) ==
  IF ~outcome.threw /\ outcome.kind = "array" /\ outcome.items # <<>>
  THEN Head(outcome.items)
  ELSE NULL

\* C20: a call of getRecipeImage is never rejected; once the service has
\* settled the call has returned the first element of the output when the
\* output is a non-empty array and null in every other case, a throw of the
\* service included; and whatever the image service does, the card shows
\* the parse of its recipe, scaled by the desired over the original servings.
C20_ImageCallNeverFails ==
  /\ imageCall.status # "rejected"
  /\ imageOutcome # NoOutcome =>
       /\ imageCall.status = "fulfilled"
       /\ imageCall.value = firstElementOrNull(imageOutcome)
  /\ cardShown =>
       /\ recipe = TextOf(generated)
       /\ parsedRecipe = parseTable[TextOf(generated)]
       /\ scaledIngredients
            = Map(cardIngredients(parseTable[TextOf(generated)], TextOf(generated)),
                  LAMBDA l : scaleIngredient(l, Rat(desiredServings, originalServings)))

\* The image service threw while a card was on display with its desired
\* servings changed: the call returned null and the card is there.
C20_Witness ==
  /\ imageOutcome.threw
  /\ imageCall.status = "fulfilled"
  /\ imageCall.value = NULL
  /\ cardShown
  /\ desiredServings # originalServings
  /\ scaledIngredients # <<>>

(***************************************************************************)
(* sanitizeText on strings of any shape                                    *)
(***************************************************************************)

\* The page as constructed, with a string to normalize.
SanitizeInit ==
  /\ ingredients = <<>>
  /\ isLoading = FALSE
  /\ recipe = <<>>
  /\ error = NULL
  /\ warning = Undefined
  /\ desiredServings = InitialServings
  /\ originalServings = InitialServings
  /\ parsedRecipe = NoRecipe
  /\ scaledIngredients = <<>>
  /\ generated = NoDoc
  /\ substitutions = <<>>
  /\ isLoadingSubstitutions = FALSE
  /\ selectedIngredients = <<>>
  /\ availableIngredients = <<>>
  /\ showSubstitutionPrompt = FALSE
  /\ showSubstitutionBox = FALSE
  /\ substitutionsCall = NoSubstitutionsCall
  /\ generationPending = FALSE
  /\ imageCall = NoImageCall
  /\ imageOutcome = NoOutcome
  /\ sanitizeRun \in
       {[text |-> text, passes |-> <<>>, started |-> TRUE] : text \in SanitizeInputs}

\* sanitizeText is applied to the string.
ApplySanitizeText ==
  /\ sanitizeRun.started
  /\ sanitizeRun.passes = <<>>
  /\ sanitizeRun' =
       [sanitizeRun EXCEPT !.passes = <<sanitizeText(sanitizeRun.text)>>]
  /\ UNCHANGED <<pageVars, imageVars>>

\* sanitizeText is applied to its own result.
ApplySanitizeTextAgain ==
  /\ sanitizeRun.passes # <<>>
  /\ Len(sanitizeRun.passes) < MaxPasses
  /\ sanitizeRun' =
       [sanitizeRun EXCEPT
          !.passes = Append(@, sanitizeText(@[Len(@)]))]
  /\ UNCHANGED <<pageVars, imageVars>>

SanitizeNext ==
  \/ ApplySanitizeText
  \/ ApplySanitizeTextAgain

SanitizeSpec == SanitizeInit /\ [][SanitizeNext]_vars

\* The character is one sanitizeText removes.
IsMarker(c) == c = "*" \/ c = "#"

\* The string has no marker and no white space at either end.
isNormal(str) ==
  /\ \A i \in 1..Len(str) : ~IsMarker(str[i])
  /\ str # <<>> => ~IsSpace(str[1]) /\ ~IsSpace(str[Len(str)])

\* What is left of the string between its first and last character that is
\* neither a marker nor white space, markers taken out; nothing when it has
\* no such character.
coreOf(str) ==
  LET solid == {i \in 1..Len(str) : ~IsMarker(str[i]) /\ ~IsSpace(str[i])}
  IN  IF solid = {} THEN <<>>
      ELSE LET first == CHOOSE i \in solid : \A j \in solid : i <= j
               last == CHOOSE i \in solid : \A j \in solid : i >= j
           IN  [k \in 1..Cardinality({i \in first..last : ~IsMarker(str[i])}) |->
                  str[CHOOSE i \in first..last :
                        /\ ~IsMarker(str[i])
                        /\ Cardinality({j \in first..i : ~IsMarker(str[j])}) = k]]
                 \o <<>>

\* C21: sanitizeText has a result for every string; the result has no '*'
\* and no '#' and no white space at its start or end, it is the string
\* without its markers and its surrounding white space, and sanitizeText
\* applied to the result gives the result again.
C21_SanitizeTextIsIdempotent ==
  LET passes == sanitizeRun.passes
  IN  /\ \A k \in 1..Len(passes) : isNormal(passes[k])
      /\ Len(passes) >= 1 => passes[1] = coreOf(sanitizeRun.text)
      /\ \A k \in 2..Len(passes) : passes[k] = passes[k - 1]

\* sanitizeText has been applied twice to a string with a marker inside
\* white space, and the first pass changed the string.
C21_Witness ==
  /\ Len(sanitizeRun.passes) = 2
  /\ sanitizeRun.text = <<" ", "*", " ", "a">>
  /\ sanitizeRun.passes[1] = <<"a">>

(***************************************************************************)
(* The section indices of the recipe shown                                 *)
(***************************************************************************)

\* The section indices parseRecipeString computes for the recipe shown.
shownIndices == sectionIndices(recipeLines(recipe))

\* The sections in their canonical order.
CanonicalOrder ==
  <<"title", "ingredients", "instructions", "substitutions", "tips", "nutrition">>

\* C22: the start indices of the sections found in the recipe shown are
\* strictly increasing in the canonical order title, ingredients,
\* instructions, substitutions, tips, nutrition; in particular no section
\* header is the title line.
C22_SectionIndicesIncrease ==
  cardShown =>
    \A a \in 1..Len(CanonicalOrder) : \A b \in (a + 1)..Len(CanonicalOrder) :
      LET first == shownIndices[CanonicalOrder[a]]
          second == shownIndices[CanonicalOrder[b]]
      IN  (first # -1 /\ second # -1) => first < second

\* The keys of the sections parseRecipeString looks for.
SectionKeys ==
  {"ingredients", "instructions", "substitutions", "tips", "nutrition",
   "time", "serves", "servingSize"}

\* C23: no line of the recipe shown is the header of two sections: no two
\* of the keys ingredients, instructions, substitutions, tips, nutrition,
\* total time, serves and serving size have the same line index.
C23_OneSectionPerLine ==
  cardShown =>
    \A a \in SectionKeys : \A b \in SectionKeys \ {a} :
      shownIndices[a] # -1 => shownIndices[a] # shownIndices[b]

\* The lists parseRecipeString extracts from the recipe shown.
extractedLists ==
  <<parsedRecipe.ingredients, parsedRecipe.instructions,
    parsedRecipe.substitutions, parsedRecipe.tips>>

\* C24: no entry of the ingredients, instructions, substitutions or tips
\* extracted from the recipe shown is empty or begins with a section-header
\* keyword (instruction, substitution, tip, nutritional, time).
C24_NoHeaderAmongTheEntries ==
  cardShown =>
    \A k \in 1..Len(extractedLists) : \A i \in 1..Len(extractedLists[k]) :
      /\ extractedLists[k][i] # <<>>
      /\ ~IsSectionHeading(extractedLists[k][i])

\* The lines of the text below its first "Nutrition:" line, up to the next
\* empty line or the end of the text; none when the text has no such line.
linesUnderNutrition(text) ==
  LET raw == Split(text, NL)
      heads == {i \in 1..Len(raw) : raw[i] = NutritionHeader}
  IN  IF heads = {} THEN <<>>
      ELSE LET head == Least(heads)
               gaps == {i \in (head + 1)..Len(raw) : raw[i] = <<>>}
               last == IF gaps = {} THEN Len(raw) ELSE Least(gaps) - 1
           IN  SubSeq(raw, head + 1, last)

PrepTimeLabel == Chars("Prep time:")
CookTimeLabel == Chars("Cook time:")

\* The values of the lines that begin with the label.
valuesAfter(ls, label) ==
  {Trim(From(ls[i], Len(label) + 1)) : i \in {j \in 1..Len(ls) : MatchAt(ls[j], 1, label)}}

\* C25: when the lines below the nutrition header of the recipe shown
\* include a line "Prep time: X" and a line "Cook time: Y", the nutrition
\* block of the parse holds both lines, the prep time of the card is X and
\* its cook time is Y.
C25_TimesBelowNutritionSurvive ==
  cardShown =>
    LET under == linesUnderNutrition(recipe)
        preps == valuesAfter(under, PrepTimeLabel)
        cooks == valuesAfter(under, CookTimeLabel)
    IN  (preps # {} /\ cooks # {}) =>
          /\ prepTimeOf(parsedRecipe) \in preps
          /\ cookTimeOf(parsedRecipe) \in cooks
          /\ \A i \in 1..Len(under) :
               (MatchAt(under[i], 1, PrepTimeLabel) \/ MatchAt(under[i], 1, CookTimeLabel))
                 => Includes(parsedRecipe.nutrition, under[i])

\* C28: while a card is shown, whatever the servings of its recipe and
\* whatever was entered into the "Adjust servings" input, desiredServings
\* and originalServings are at least 1, so that the scale factor
\* desiredServings / originalServings is a positive finite number.
C28_ServingsAtLeastOne ==
  cardShown =>
    /\ desiredServings >= 1
    /\ originalServings >= 1
    /\ LET scaleFactor == scaleFactorOf(desiredServings, originalServings)
       IN  IsFinite(scaleFactor) /\ scaleFactor.n > 0

(***************************************************************************)
(* page.tsx (Home): asking for substitutions                               *)
(***************************************************************************)

\* "Yes" or "No" below "Do you need to substitute something?".
AnswerSubstitutionPrompt(yes) ==
  /\ cardShown
  /\ showSubstitutionPrompt
  /\ showSubstitutionPrompt' = FALSE
  /\ showSubstitutionBox' = yes
  /\ UNCHANGED <<ingredients, isLoading, recipe, error, warning, cardVars,
                 generated, substitutions, isLoadingSubstitutions,
                 selectedIngredients, availableIngredients, substitutionsCall,
                 generationPending, imageVars, sanitizeVars>>

\* The checkbox of an ingredient of the box: toggleIngredient(ingredient).
ToggleIngredient(k) ==
  /\ cardShown
  /\ showSubstitutionBox
  /\ k \in 1..Len(availableIngredients)
  /\ selectedIngredients' = toggled(selectedIngredients, availableIngredients[k])
  /\ UNCHANGED <<ingredients, isLoading, recipe, error, warning, cardVars,
                 generated, substitutions, isLoadingSubstitutions,
                 availableIngredients, showSubstitutionPrompt,
                 showSubstitutionBox, substitutionsCall, generationPending,
                 imageVars, sanitizeVars>>

\* handleGetSubstitutions up to the await; its button is disabled while
\* substitutions are loading or nothing is selected.
HandleGetSubstitutions ==
  /\ cardShown
  /\ showSubstitutionBox
  /\ ~isLoadingSubstitutions
  /\ selectedIngredients # <<>>
  /\ isLoadingSubstitutions' = TRUE
  /\ substitutions' = <<>>
  /\ substitutionsCall' = [pending |-> TRUE, ingredients |-> selectedIngredients]
  /\ UNCHANGED <<ingredients, isLoading, recipe, error, warning, cardVars,
                 generated, selectedIngredients, availableIngredients,
                 showSubstitutionPrompt, showSubstitutionBox,
                 generationPending, imageVars, sanitizeVars>>

\* The rest of handleGetSubstitutions when getSubstitutionsFromGemini
\* settles: the text is kept, or the error is set; isLoadingSubstitutions
\* ends false.
SubstitutionsSettle(ok) ==
  /\ substitutionsCall.pending
  /\ LET result ==
           getSubstitutionsFromGemini(
             ok, substitutionsAnswer(substitutionsCall.ingredients))
     IN  IF result.threw
         THEN error' = result.message /\ UNCHANGED substitutions
         ELSE substitutions' = result.text /\ UNCHANGED error
  /\ isLoadingSubstitutions' = FALSE
  /\ substitutionsCall' = NoSubstitutionsCall
  /\ UNCHANGED <<ingredients, isLoading, recipe, warning, cardVars, generated,
                 selectedIngredients, availableIngredients,
                 showSubstitutionPrompt, showSubstitutionBox,
                 generationPending, imageVars, sanitizeVars>>

\* The recipes of the page while substitutions are asked for: two with
\* different ingredients and one without an ingredients section.
HomeDocs ==
  {Doc(ing, <<InstructionsHeader>> \o SubSeq(InstructionPool, 1, 1),
       Absent, Absent, Absent, Absent, Absent, Absent) :
     ing \in {<<IngredientsHeader>> \o SubSeq(IngredientPool, 1, 2),
              <<IngredientsHeader>> \o SubSeq(IngredientPool, 4, 4),
              Absent}}

HomeNext ==
  \/ \E value \in TypedIngredients : SetIngredients(value)
  \/ HandleSubmitBlank
  \/ HandleSubmit
  \/ \E doc \in HomeDocs : GenerationSettles(TRUE, TextOf(doc), doc)
  \/ GenerationSettles(FALSE, <<>>, NoDoc)
  \/ \E yes \in BOOLEAN : AnswerSubstitutionPrompt(yes)
  \/ \E k \in 1..MaxIngredients : ToggleIngredient(k)
  \/ HandleGetSubstitutions
  \/ \E ok \in BOOLEAN : SubstitutionsSettle(ok)

HomeSpec == Init /\ [][HomeNext]_vars

\* The "Ingredient Substitutions" box is on display.
substitutionsShown ==
  cardShown /\ showSubstitutionBox /\ substitutions # <<>> /\ ~isLoadingSubstitutions

\* C26: whenever substitutions are shown beside a recipe, every ingredient
\* they name is an ingredient of that recipe: neither a new recipe nor a
\* late answer leaves the substitutions of an earlier recipe on display.
C26_SubstitutionsOfTheRecipeShown ==
  substitutionsShown =>
    LET names == substitutionNames(substitutions, ingredients)
        ownNames == availableOf(recipe).items
    IN  \A i \in 1..Len(names) : \E k \in 1..Len(ownNames) : ownNames[k] = names[i]

\* The elements of a list.
elementsOf(ls) == {ls[i] : i \in 1..Len(ls)}

\* C27: every step in which a new recipe arrives leaves availableIngredients
\* equal to the ingredient lines extracted from that recipe (none when it
\* has no line that names the ingredients) and selectedIngredients empty;
\* and at all times the ingredients selected are among those of the
\* current recipe.
C27_SelectionsFollowTheRecipe ==
  /\ [][(recipe = <<>> /\ recipe' # <<>>) =>
          /\ availableIngredients' = availableOf(recipe').items
          /\ selectedIngredients' = <<>>]_vars
  /\ [](recipe # <<>> =>
          elementsOf(selectedIngredients) \subseteq elementsOf(availableOf(recipe).items))

\* C30: with empty or white-space-only ingredients no step issues a
\* generation request, and the submission, the step that sets the error
\* "Where are the ingredients at, bro?", happens with such ingredients only
\* and leaves isLoading, recipe, substitutions and the ingredient
\* selections as they are.
C30_BlankSubmissionChangesNothingElse ==
  [][/\ Trim(ingredients) = <<>> => (generationPending' => generationPending)
     /\ (error' = BlankIngredientsError /\ error # BlankIngredientsError) =>
          /\ Trim(ingredients) = <<>>
          /\ UNCHANGED <<isLoading, recipe, substitutions, selectedIngredients,
                         availableIngredients, generationPending,
                         substitutionsCall>>]_vars

\* A blank submission was made beside a recipe with substitutions and a
\* selection.
C30_Witness ==
  /\ Trim(ingredients) = <<>>
  /\ error = BlankIngredientsError
  /\ cardShown
  /\ substitutions # <<>>
  /\ selectedIngredients # <<>>

(***************************************************************************)
(* Home when every generation call settles                                 *)
(***************************************************************************)

\* The generation call in flight throws.
GenerationCallThrows == GenerationSettles(FALSE, <<>>, NoDoc)

\* Home, with every call of getRecipeFromGemini settling in the end. A call
\* in flight can throw at any time, and once it has settled, by a throw or
\* by a recipe, it can throw no more: weak fairness of the throw says that
\* no call stays in flight for ever, and the behaviours in which the call
\* returns a recipe satisfy it as well.
HomeLiveSpec == Init /\ [][HomeNext]_vars /\ WF_vars(GenerationCallThrows)

\* C29: every submission that passes the blank check, which sets isLoading,
\* is followed by a state with isLoading false; while it is in flight the
\* recipe is null; and the step that ends it sets the error and leaves the
\* recipe null when the call threw, and sets the recipe to the text
\* returned when it did not.
C29_SubmissionEnds ==
  /\ isLoading ~> ~isLoading
  /\ [](isLoading => recipe = <<>>)
  /\ [][(isLoading /\ ~isLoading') =>
          IF generated' = NoDoc
          THEN error' \in {GeminiApiError, InvalidResponseFormat} /\ recipe' = <<>>
          ELSE recipe' = TextOf(generated') /\ error' = error]_vars

\* A first submission has ended with a throw of the generation call.
C29_Witness ==
  /\ Trim(ingredients) # <<>>
  /\ ~isLoading
  /\ ~generationPending
  /\ error = GeminiApiError
  /\ recipe = <<>>
  /\ availableIngredients = <<>>
  /\ substitutionsCall = NoSubstitutionsCall

====
